---- MODULE Spec2Model ----
(***************************************************************************)
(* A model of the MIDI HTTP bridge: the port layer (MidiPort,              *)
(* VirtualMidiPort), the route layer (RouteManager, RemoteForwarder) and   *)
(* the HTTP handlers of MidiHttpServer that drive them.                    *)
(*                                                                         *)
(* The module holds several specifications over one set of variables; each *)
(* exercises one part of the program:                                      *)
(*   SpecReasm   the inbound SysEx reassembler of both port classes        *)
(*   SpecSend    sendMessage on physical and virtual ports                 *)
(*   SpecFifo    the inbound FIFO of a VirtualMidiPort under threads       *)
(*   SpecBridge  routing: driver callbacks, the inject handler,            *)
(*               forwardMessage, setRouteEnabled and the RemoteForwarder   *)
(***************************************************************************)
EXTENDS Integers, Sequences, FiniteSets, TLC

\* ------------------------------------------------------------------ bytes

F0 == 240
F7 == 247

Last(s) == s[Len(s)]

\* ------------------------------------------------------------------ bounds

\* Number of fragments the driver delivers in SpecReasm.
MaxFrags == 4
\* Longest message handed to sendMessage in SpecSend.
MaxMsgLen == 4
\* Number of arrivals (injectMessage calls and driver deliveries) in SpecFifo.
MaxArrivals == 2
\* Number of getMessages calls in SpecFifo.
MaxTakes == 2
\* Number of messages that arrive (driver deliveries and inject requests) in SpecBridge.
MaxBridgeMsgs == 2
\* Routes in the list of SpecRoundTrip.
MaxSerRoutes == 2
\* Restarts of the process and requests on /routes in SpecRoutes.
MaxRestarts == 1
MaxRouteOps == 2
\* Send and inject requests in SpecPorts.
MaxRequests == 2
\* RemoteForwarder::send calls in SpecForwarder.
MaxSends == 2
\* Requests on /routes in SpecTable.
MaxTableOps == 4

\* ------------------------------------------------------------------ state

VARIABLES
    \* SpecReasm: one MidiPort and one VirtualMidiPort, opened as inputs and
    \* fed the same fragments by the driver.
    physIn,         \* MidiPort: sysexBuffering, sysexBuffer, messageQueue, messageCallback, input
    virtIn,         \* VirtualMidiPort: the same members
    physCalls,      \* invocations of physIn's routing callback, <<portId, data>>
    virtCalls,      \* invocations of virtIn's routing callback
    fragLog,        \* the fragments delivered so far
    \* SpecSend
    sendPorts,      \* port -> [isInputPort, input, output]
    lastSend,       \* the last sendMessage call and what it handed to the platform
    lastInject,     \* the last injectMessage call and the callbacks it invoked
    \* SpecFifo: one input VirtualMidiPort used by a driver thread and HTTP threads
    fifoPort,       \* VirtualMidiPort members; queueMutex, callbackMutex: owner or "none"
    fifoThread,     \* thread -> [pc, data, result, callAt, callback]: position and locals
    fifoEmitted,    \* history: the messages pushed on messageQueue, in push order
    fifoTaken,      \* history: the getMessages calls that returned, in return order
    fifoInjected,   \* history: the injectMessage calls, in call order
    fifoReturned,   \* history: how many arrivals (inject calls, deliveries) have returned
    fifoDelivered,  \* history: the fragments the driver delivered
    fifoCalls,      \* history: invocations of the routing callback, <<portId, data>>
    \* SpecBridge: MidiHttpServer with its RouteManager
    portsMutex,     \* MidiHttpServer::portsMutex: its owner or "none"
    ports,          \* MidiHttpServer::ports: portId -> MidiPort
    virtualPorts,   \* MidiHttpServer::virtualPorts: portId -> VirtualMidiPort
    routes,         \* RouteManager::routes: id -> MidiRoute
    routesFile,     \* the routes file: whether it exists, its characters, and
                    \* whether the process can open it for writing
    forwarders,     \* RouteManager::forwarders: "host:port" -> RemoteForwarder
    bridgeThread,   \* thread -> position and locals
    transmitted,    \* history: platform transmit calls made by local dispatch
    dispatched,     \* history: route id -> number of forwardToDestination calls for it
    bridgeArrived,  \* history: how many messages arrived (deliveries and injects)
    \* SpecRoundTrip: a route list written by saveToDiskUnlocked and read back
    \* by loadFromDisk
    serRoutes,      \* the route list in memory: id -> MidiRoute
    serFile,        \* the file written from it
    serLoaded,      \* the table a fresh RouteManager loads from the file
    serStep,        \* "build", "saved" or "loaded"
    \* the host of the server process
    devices,        \* the names of the MIDI devices attached
    clock,          \* std::time(nullptr) in the running process, in seconds
    randCalls,      \* the number of rand() calls the process has made
    restarts,       \* history: how often the process was stopped and started again
    routeOps,       \* history: how many requests on /routes were answered
    response,       \* the last HTTP response: [status, body]
    request,        \* history: the last send or inject request, the port it found
                    \* and the transmit calls it made; n counts these requests
    \* SpecForwarder: the forwarders of a RouteManager with their mutexes
    forwardersMutex, \* RouteManager::forwardersMutex: its owner or "none"
    fwd,            \* RouteManager::forwarders: key -> RemoteForwarder with its
                    \* queueMutex, its worker's position, and history
    fwdThread,      \* thread -> position in forwardToRemoteServer and locals
    fwdDtor,        \* position of ~RouteManager in the forwarders it destroys, and
                    \* history: the states it found their workers in
    fwdCreated,     \* history: the keys of the RemoteForwarders constructed
    fwdSends,       \* history: how many sends were started
    \* SpecAutoOpen: HTTP threads inside ensureLocalPortOpen
    autoOpen        \* thread -> position in ensureLocalPortOpen, portId, portName

reasmVars == <<physIn, virtIn, physCalls, virtCalls, fragLog>>
sendVars == <<sendPorts, lastSend, lastInject>>
fifoVars == <<fifoPort, fifoThread, fifoEmitted, fifoTaken, fifoInjected, fifoReturned,
              fifoDelivered, fifoCalls>>
bridgeVars == <<portsMutex, ports, virtualPorts, routes, routesFile, forwarders,
                bridgeThread, transmitted, dispatched, bridgeArrived>>
serVars == <<serRoutes, serFile, serLoaded, serStep>>
hostVars == <<devices, clock, randCalls, restarts, routeOps, response, request>>
fwdVars == <<forwardersMutex, fwd, fwdThread, fwdDtor, fwdCreated, fwdSends>>
autoVars == <<autoOpen>>
vars == <<reasmVars, sendVars, fifoVars, bridgeVars, serVars, hostVars, fwdVars, autoVars>>

\* ------------------------------------------------------------------ SysEx reassembler

\* The fragments the driver may deliver (each of length >= 1): the three
\* fragments of a split SysEx, whole SysEx messages, short messages, a lone
\* SysEx start and a lone SysEx end.
Fragments ==
    { <<240, 126, 1>>, <<2, 3>>, <<4, 247>>, <<240, 126, 247>>, <<240>>,
      <<247>>, <<144, 60, 127>>, <<248>> }

\* A port object right after its constructor.
NewPort ==
    [ sysexBuffering |-> FALSE, sysexBuffer |-> <<>>, messageQueue |-> <<>>,
      messageCallback |-> FALSE, input |-> FALSE ]

\* juce::MidiMessage::isSysEx(): the first raw byte is 0xF0.
isSysEx(raw) == Len(raw) > 0 /\ raw[1] = F0

\* juce::MidiMessage::getSysExData()/getSysExDataSize(): the raw bytes
\* without the first and the last one.
getSysExData(raw) == SubSeq(raw, 2, Len(raw) - 1)

\* The locked block of MidiPort::handleIncomingMidiMessage: the port after the
\* fragment, and completedMessage.
MidiPort_noContinuation(port, raw) ==
    LET size == Len(raw)
        startsWithF0 == size > 0 /\ raw[1] = F0
        endsWithF7 == size > 0 /\ raw[size] = F7
    IN
    IF startsWithF0 /\ endsWithF7
    THEN [ port |-> [port EXCEPT !.sysexBuffer = <<>>, !.sysexBuffering = FALSE,
                                 !.messageQueue = Append(@, raw)],
           completedMessage |-> raw ]
    ELSE IF startsWithF0
    THEN [ port |-> [port EXCEPT !.sysexBuffer = raw, !.sysexBuffering = TRUE],
           completedMessage |-> <<>> ]
    ELSE [ port |-> [port EXCEPT !.messageQueue = Append(@, raw)],
           completedMessage |-> raw ]

\* The locked block without sysexBuffer.clear() at the start of a new SysEx.
MidiPort_keepPartial(port, raw) ==
    LET size == Len(raw)
        startsWithF0 == size > 0 /\ raw[1] = F0
        endsWithF7 == size > 0 /\ raw[size] = F7
        buffer == port.sysexBuffer \o raw
    IN
    IF startsWithF0 /\ endsWithF7
    THEN [ port |-> [port EXCEPT !.sysexBuffer = <<>>, !.sysexBuffering = FALSE,
                                 !.messageQueue = Append(@, buffer)],
           completedMessage |-> buffer ]
    ELSE IF startsWithF0 \/ port.sysexBuffering
    THEN IF endsWithF7
         THEN [ port |-> [port EXCEPT !.sysexBuffer = <<>>, !.sysexBuffering = FALSE,
                                      !.messageQueue = Append(@, buffer)],
                completedMessage |-> buffer ]
         ELSE [ port |-> [port EXCEPT !.sysexBuffer = buffer, !.sysexBuffering = TRUE],
                completedMessage |-> <<>> ]
    ELSE [ port |-> [port EXCEPT !.messageQueue = Append(@, raw)],
           completedMessage |-> raw ]

\* The locked block without sysexBuffering = false after the last fragment.
MidiPort_stillBuffering(port, raw) ==
    LET size == Len(raw)
        startsWithF0 == size > 0 /\ raw[1] = F0
        endsWithF7 == size > 0 /\ raw[size] = F7
        buffer == IF startsWithF0 THEN raw ELSE port.sysexBuffer \o raw
    IN
    IF startsWithF0 \/ port.sysexBuffering
    THEN IF endsWithF7
         THEN [ port |-> [port EXCEPT !.sysexBuffer = <<>>, !.sysexBuffering = TRUE,
                                      !.messageQueue = Append(@, buffer)],
                completedMessage |-> buffer ]
         ELSE [ port |-> [port EXCEPT !.sysexBuffer = buffer, !.sysexBuffering = TRUE],
                completedMessage |-> <<>> ]
    ELSE [ port |-> [port EXCEPT !.messageQueue = Append(@, raw)],
           completedMessage |-> raw ]

MidiPort_reassemble(port, raw) ==
    LET size == Len(raw)
        startsWithF0 == size > 0 /\ raw[1] = F0
        endsWithF7 == size > 0 /\ raw[size] = F7
        isSysExRelated == isSysEx(raw) \/ startsWithF0 \/ (port.sysexBuffering /\ size > 0)
    IN
    IF isSysExRelated
    THEN IF startsWithF0
         THEN IF endsWithF7
              THEN [ port |-> [port EXCEPT !.sysexBuffer = <<>>, !.sysexBuffering = FALSE,
                                           !.messageQueue = Append(@, raw)],
                     completedMessage |-> raw ]
              ELSE [ port |-> [port EXCEPT !.sysexBuffer = raw, !.sysexBuffering = TRUE],
                     completedMessage |-> <<>> ]
         ELSE IF port.sysexBuffering
         THEN LET buffer == port.sysexBuffer \o raw IN
              IF endsWithF7
              THEN [ port |-> [port EXCEPT !.sysexBuffer = <<>>, !.sysexBuffering = FALSE,
                                           !.messageQueue = Append(@, buffer)],
                     completedMessage |-> buffer ]
              ELSE [ port |-> [port EXCEPT !.sysexBuffer = buffer],
                     completedMessage |-> <<>> ]
         ELSE IF isSysEx(raw)
         THEN LET data == <<F0>> \o getSysExData(raw) \o <<F7>> IN
              [ port |-> [port EXCEPT !.messageQueue = Append(@, data)],
                completedMessage |-> data ]
         ELSE [ port |-> port, completedMessage |-> <<>> ]
    ELSE [ port |-> [port EXCEPT !.messageQueue = Append(@, raw)],
           completedMessage |-> raw ]

\* The locked block of VirtualMidiPort::handleIncomingMidiMessage.
VirtualMidiPort_reassemble(port, raw) ==
    LET size == Len(raw)
        startsWithF0 == size > 0 /\ raw[1] = F0
        endsWithF7 == size > 0 /\ raw[size] = F7
    IN
    IF isSysEx(raw) \/ startsWithF0
    THEN IF startsWithF0
         THEN IF endsWithF7
              THEN [ port |-> [port EXCEPT !.sysexBuffer = <<>>, !.sysexBuffering = FALSE,
                                           !.messageQueue = Append(@, raw)],
                     completedMessage |-> raw ]
              ELSE [ port |-> [port EXCEPT !.sysexBuffer = raw, !.sysexBuffering = TRUE],
                     completedMessage |-> <<>> ]
         ELSE IF port.sysexBuffering
         THEN LET buffer == port.sysexBuffer \o raw IN
              IF endsWithF7
              THEN [ port |-> [port EXCEPT !.sysexBuffer = <<>>, !.sysexBuffering = FALSE,
                                           !.messageQueue = Append(@, buffer)],
                     completedMessage |-> buffer ]
              ELSE [ port |-> [port EXCEPT !.sysexBuffer = buffer],
                     completedMessage |-> <<>> ]
         ELSE IF isSysEx(raw)
         THEN LET data == <<F0>> \o getSysExData(raw) \o <<F7>> IN
              [ port |-> [port EXCEPT !.messageQueue = Append(@, data)],
                completedMessage |-> data ]
         ELSE [ port |-> port, completedMessage |-> <<>> ]
    ELSE [ port |-> [port EXCEPT !.messageQueue = Append(@, raw)],
           completedMessage |-> raw ]

\* The tail of handleIncomingMidiMessage: the routing callback is invoked with
\* the completed message when there is one and a callback is set.
InvokeCallback(port, portId, completedMessage, calls) ==
    IF completedMessage # <<>> /\ port.messageCallback
    THEN Append(calls, <<portId, completedMessage>>)
    ELSE calls

\* setMessageCallback on both ports, as the open handlers do for an input
\* port before they open it.
ReasmSetMessageCallback ==
    /\ ~physIn.input /\ ~physIn.messageCallback
    /\ physIn' = [physIn EXCEPT !.messageCallback = TRUE]
    /\ virtIn' = [virtIn EXCEPT !.messageCallback = TRUE]
    /\ UNCHANGED <<physCalls, virtCalls, fragLog, sendVars, fifoVars, bridgeVars, serVars, fwdVars, autoVars, hostVars>>

\* open() of both input ports: the driver starts delivering.
ReasmOpen ==
    /\ ~physIn.input
    /\ physIn' = [physIn EXCEPT !.input = TRUE]
    /\ virtIn' = [virtIn EXCEPT !.input = TRUE]
    /\ UNCHANGED <<physCalls, virtCalls, fragLog, sendVars, fifoVars, bridgeVars, serVars, fwdVars, autoVars, hostVars>>

\* The driver delivers the fragment raw to both ports.
ReasmDeliver(raw) ==
    /\ physIn.input
    /\ Len(fragLog) < MaxFrags
    /\ LET p == MidiPort_reassemble(physIn, raw)
           v == VirtualMidiPort_reassemble(virtIn, raw)
       IN /\ physIn' = p.port
          /\ virtIn' = v.port
          /\ physCalls' = InvokeCallback(physIn, "in", p.completedMessage, physCalls)
          /\ virtCalls' = InvokeCallback(virtIn, "in", v.completedMessage, virtCalls)
    /\ fragLog' = Append(fragLog, raw)
    /\ UNCHANGED <<sendVars, fifoVars, bridgeVars, serVars, fwdVars, autoVars, hostVars>>

\* ------------------------------------------------------------------ sendMessage

RECURSIVE SeqsUpTo(_, _)
SeqsUpTo(S, n) ==
    IF n = 0 THEN {<<>>}
    ELSE LET shorter == SeqsUpTo(S, n - 1) IN
         shorter \cup { Append(s, b) : s \in {x \in shorter : Len(x) = n - 1}, b \in S }

SendMessages == SeqsUpTo({F0, F7, 144}, MaxMsgLen)

\* The ports of SpecSend: an output port of each class.  SpecPortLife adds
\* an input port of each class.
SendPortIds == {"output-0", "virtual:out"}
InputPortIds == {"input-0", "virtual:in"}
SendIsInput(p) == p \in InputPortIds

\* What sendMessage hands to the platform: the sequence of transmit calls
\* (none or one) for a port whose output pointer is `output`.
MidiPort_transmit_sysexLen2(output, data) ==
    IF ~output THEN <<>>
    ELSE IF data = <<>> THEN <<>>
    ELSE IF data[1] = F0
    THEN IF Last(data) # F7 THEN <<>>
         ELSE IF Len(data) >= 2
         THEN << [primitive |-> "createSysExMessage",
                  bytes |-> SubSeq(data, 2, Len(data) - 1)] >>
         ELSE <<>>
    ELSE IF Len(data) >= 1 /\ Len(data) <= 3
    THEN << [primitive |-> "MidiMessage", bytes |-> data] >>
    ELSE <<>>

MidiPort_transmit_shortLen4(output, data) ==
    IF ~output THEN <<>>
    ELSE IF data = <<>> THEN <<>>
    ELSE IF data[1] = F0
    THEN IF Last(data) # F7 THEN <<>>
         ELSE IF Len(data) > 2
         THEN << [primitive |-> "createSysExMessage",
                  bytes |-> SubSeq(data, 2, Len(data) - 1)] >>
         ELSE <<>>
    ELSE IF Len(data) >= 1 /\ Len(data) <= 4
    THEN << [primitive |-> "MidiMessage", bytes |-> data] >>
    ELSE <<>>

MidiPort_transmit(output, data) ==
    IF ~output THEN <<>>
    ELSE IF data = <<>> THEN <<>>
    ELSE IF data[1] = F0
    THEN IF Last(data) # F7 THEN <<>>
         ELSE IF Len(data) > 2
         THEN << [primitive |-> "createSysExMessage",
                  bytes |-> SubSeq(data, 2, Len(data) - 1)] >>
         ELSE <<>>
    ELSE IF Len(data) >= 1 /\ Len(data) <= 3
    THEN << [primitive |-> "MidiMessage", bytes |-> data] >>
    ELSE <<>>

VirtualMidiPort_transmit(virtualOutput, data) ==
    IF ~virtualOutput THEN <<>>
    ELSE IF data = <<>> THEN <<>>
    ELSE IF data[1] = F0
    THEN IF Last(data) # F7 THEN <<>>
         ELSE IF Len(data) > 2
         THEN << [primitive |-> "createSysExMessage",
                  bytes |-> SubSeq(data, 2, Len(data) - 1)] >>
         ELSE <<>>
    ELSE IF Len(data) >= 1 /\ Len(data) <= 3
    THEN << [primitive |-> "MidiMessage", bytes |-> data] >>
    ELSE <<>>

IsVirtualId(p) == p \in {"virtual:out", "virtual:in"}

\* open(): an input port gets its input pointer, an output port its output
\* pointer (a failed open changes nothing).
SendOpen(p) ==
    /\ ~sendPorts[p].input /\ ~sendPorts[p].output
    /\ sendPorts' = [sendPorts EXCEPT ![p] =
            IF @.isInputPort THEN [@ EXCEPT !.input = TRUE, !.closed = FALSE]
                             ELSE [@ EXCEPT !.output = TRUE, !.closed = FALSE]]
    /\ UNCHANGED <<lastSend, lastInject, reasmVars, fifoVars, bridgeVars, serVars, fwdVars, autoVars, hostVars>>

\* close(): both pointers are reset.  closed is history: close() was called
\* and open() has not succeeded since.
SendClose(p) ==
    /\ sendPorts[p].input \/ sendPorts[p].output
    /\ sendPorts' = [sendPorts EXCEPT ![p] =
            [@ EXCEPT !.input = FALSE, !.output = FALSE, !.closed = TRUE]]
    /\ UNCHANGED <<lastSend, lastInject, reasmVars, fifoVars, bridgeVars, serVars, fwdVars, autoVars, hostVars>>

\* sendMessage(data) on port p.
SendMessage(p, data) ==
    /\ lastSend' = [ port |-> p, data |-> data, output |-> sendPorts[p].output,
                     transmitted |-> IF IsVirtualId(p)
                                     THEN VirtualMidiPort_transmit(sendPorts[p].output, data)
                                     ELSE MidiPort_transmit(sendPorts[p].output, data) ]
    /\ UNCHANGED <<sendPorts, lastInject, reasmVars, fifoVars, bridgeVars, serVars, fwdVars, autoVars, hostVars>>

\* VirtualMidiPort::injectMessage(data) on port p: refused on a port that is
\* not an input port; otherwise the message is pushed on the queue and the
\* routing callback, when set, is invoked with the port's id and the message.
\* Neither pointer of the port is read.
SendInject(p, data) ==
    /\ IsVirtualId(p)
    /\ lastInject' = [ port |-> p, data |-> data, input |-> sendPorts[p].input,
                       afterClose |-> sendPorts[p].closed,
                       queued |-> sendPorts[p].isInputPort,
                       callbacks |-> IF sendPorts[p].isInputPort
                                        /\ sendPorts[p].messageCallback
                                     THEN << [portId |-> p, data |-> data] >>
                                     ELSE <<>> ]
    /\ UNCHANGED <<sendPorts, lastSend, reasmVars, fifoVars, bridgeVars, serVars, fwdVars, autoVars, hostVars>>

\* ------------------------------------------------------------------ inbound FIFO under threads

FifoThreads == {"driver", "http1", "http2"}
FifoPortId == "virtual:in"

\* The messages injected and the fragments delivered in SpecFifo.
FifoMessages == { <<144, 60, 127>>, <<248>> }

FifoIdle == [pc |-> "idle", data |-> <<>>, result |-> <<>>, callAt |-> <<>>,
             callback |-> FALSE]

\* std::lock_guard<std::mutex> can take the mutex only when no thread owns it.
MutexFree_noExclusion(mutex) == TRUE

MutexFree(mutex) == mutex = "none"

\* messageQueue.push(data)
QueuePush_twice(queue, data) == Append(Append(queue, data), data)

QueuePush(queue, data) == Append(queue, data)

FifoArrivals == Len(fifoInjected) + Len(fifoDelivered)

\* The block { std::lock_guard<std::mutex> lock(callbackMutex);
\* callback = messageCallback; } on thread t: the local copy, and the owner
\* of callbackMutex when the block is left.
CallbackCopy_locked(port, t) ==
    [callback |-> port.messageCallback, callbackMutex |-> t]

CallbackCopy(port, t) ==
    [callback |-> port.messageCallback, callbackMutex |-> "none"]

\* setMessageCallback(callback), under callbackMutex.
FifoSetMessageCallback ==
    /\ ~fifoPort.messageCallback
    /\ MutexFree(fifoPort.callbackMutex)
    /\ fifoPort' = [fifoPort EXCEPT !.messageCallback = TRUE]
    /\ UNCHANGED <<fifoThread, fifoEmitted, fifoTaken, fifoInjected, fifoReturned,
                   fifoDelivered, fifoCalls, reasmVars, sendVars, bridgeVars, serVars, fwdVars, autoVars, hostVars>>

\* injectMessage(data), up to the lock_guard on queueMutex.
FifoInjectLock(t, data) ==
    /\ t # "driver"
    /\ fifoThread[t].pc = "idle"
    /\ FifoArrivals < MaxArrivals
    /\ fifoPort.isInputPort
    /\ MutexFree(fifoPort.queueMutex)
    /\ fifoPort' = [fifoPort EXCEPT !.queueMutex = t]
    /\ fifoThread' = [fifoThread EXCEPT ![t] = [FifoIdle EXCEPT !.pc = "inject_locked",
                                                               !.data = data]]
    /\ fifoInjected' = Append(fifoInjected,
                              [data |-> data, callbackSet |-> fifoPort.messageCallback])
    /\ UNCHANGED <<fifoEmitted, fifoTaken, fifoReturned, fifoDelivered, fifoCalls,
                   reasmVars, sendVars, bridgeVars, serVars, fwdVars, autoVars, hostVars>>

\* injectMessage: messageQueue.push(data) and the end of the locked block.
FifoInjectPush(t) ==
    /\ fifoThread[t].pc = "inject_locked"
    /\ fifoPort' = [fifoPort EXCEPT !.messageQueue = QueuePush(@, fifoThread[t].data),
                                    !.queueMutex = "none"]
    /\ fifoEmitted' = Append(fifoEmitted, fifoThread[t].data)
    /\ fifoThread' = [fifoThread EXCEPT ![t].pc = "inject_callback"]
    /\ UNCHANGED <<fifoTaken, fifoInjected, fifoReturned, fifoDelivered, fifoCalls,
                   reasmVars, sendVars, bridgeVars, serVars, fwdVars, autoVars, hostVars>>

\* injectMessage: the callback is copied under callbackMutex.
FifoInjectCallback(t) ==
    /\ fifoThread[t].pc = "inject_callback"
    /\ MutexFree(fifoPort.callbackMutex)
    /\ LET copy == CallbackCopy(fifoPort, t)
       IN /\ fifoPort' = [fifoPort EXCEPT !.callbackMutex = copy.callbackMutex]
          /\ fifoThread' = [fifoThread EXCEPT ![t].pc = "invoke",
                                              ![t].callback = copy.callback]
    /\ UNCHANGED <<fifoEmitted, fifoTaken, fifoInjected, fifoReturned, fifoDelivered,
                   fifoCalls, reasmVars, sendVars, bridgeVars, serVars, fwdVars, autoVars, hostVars>>

\* if (callback) callback(portId, data), on both paths; the call returns.
FifoInvoke(t) ==
    /\ fifoThread[t].pc = "invoke"
    /\ fifoCalls' = IF fifoThread[t].callback
                    THEN Append(fifoCalls, <<FifoPortId, fifoThread[t].data>>)
                    ELSE fifoCalls
    /\ fifoThread' = [fifoThread EXCEPT ![t] = FifoIdle]
    /\ fifoReturned' = fifoReturned + 1
    /\ UNCHANGED <<fifoPort, fifoEmitted, fifoTaken, fifoInjected, fifoDelivered,
                   reasmVars, sendVars, bridgeVars, serVars, fwdVars, autoVars, hostVars>>

\* handleIncomingMidiMessage(raw) on the driver thread, up to the lock_guard.
FifoHandleLock(t, raw) ==
    /\ t = "driver"
    /\ fifoThread[t].pc = "idle"
    /\ FifoArrivals < MaxArrivals
    /\ MutexFree(fifoPort.queueMutex)
    /\ fifoPort' = [fifoPort EXCEPT !.queueMutex = t]
    /\ fifoThread' = [fifoThread EXCEPT ![t] = [FifoIdle EXCEPT !.pc = "handle_locked",
                                                               !.data = raw]]
    /\ fifoDelivered' = Append(fifoDelivered, raw)
    /\ UNCHANGED <<fifoEmitted, fifoTaken, fifoInjected, fifoReturned, fifoCalls,
                   reasmVars, sendVars, bridgeVars, serVars, fwdVars, autoVars, hostVars>>

\* handleIncomingMidiMessage: the locked block.
FifoHandleReassemble(t) ==
    /\ fifoThread[t].pc = "handle_locked"
    /\ LET members == [ sysexBuffering |-> fifoPort.sysexBuffering,
                        sysexBuffer |-> fifoPort.sysexBuffer,
                        messageQueue |-> fifoPort.messageQueue ]
           r == VirtualMidiPort_reassemble(members, fifoThread[t].data)
       IN /\ fifoPort' = [fifoPort EXCEPT !.sysexBuffering = r.port.sysexBuffering,
                                          !.sysexBuffer = r.port.sysexBuffer,
                                          !.messageQueue = r.port.messageQueue,
                                          !.queueMutex = "none"]
          /\ fifoEmitted' = IF r.completedMessage # <<>>
                            THEN Append(fifoEmitted, r.completedMessage)
                            ELSE fifoEmitted
          /\ fifoThread' = [fifoThread EXCEPT ![t].pc = "handle_callback",
                                              ![t].data = r.completedMessage]
    /\ UNCHANGED <<fifoTaken, fifoInjected, fifoReturned, fifoDelivered, fifoCalls,
                   reasmVars, sendVars, bridgeVars, serVars, fwdVars, autoVars, hostVars>>

\* handleIncomingMidiMessage after the locked block: for a completed message
\* the callback is copied under callbackMutex; without one the call returns.
FifoHandleCallback(t) ==
    /\ fifoThread[t].pc = "handle_callback"
    /\ IF fifoThread[t].data = <<>>
       THEN /\ fifoThread' = [fifoThread EXCEPT ![t] = FifoIdle]
            /\ fifoReturned' = fifoReturned + 1
            /\ UNCHANGED fifoPort
       ELSE /\ MutexFree(fifoPort.callbackMutex)
            /\ LET copy == CallbackCopy(fifoPort, t)
               IN /\ fifoPort' = [fifoPort EXCEPT !.callbackMutex = copy.callbackMutex]
                  /\ fifoThread' = [fifoThread EXCEPT ![t].pc = "invoke",
                                                      ![t].callback = copy.callback]
            /\ UNCHANGED fifoReturned
    /\ UNCHANGED <<fifoEmitted, fifoTaken, fifoInjected, fifoDelivered, fifoCalls,
                   reasmVars, sendVars, bridgeVars, serVars, fwdVars, autoVars, hostVars>>

\* getMessages(), up to the lock_guard on queueMutex.  callAt keeps what the
\* call found: the queue and the number of arrivals that had returned.
FifoGetLock(t) ==
    /\ t # "driver"
    /\ fifoThread[t].pc = "idle"
    /\ Len(fifoTaken) + Cardinality({u \in FifoThreads : fifoThread[u].pc = "get_locked"})
         < MaxTakes
    /\ MutexFree(fifoPort.queueMutex)
    /\ fifoPort' = [fifoPort EXCEPT !.queueMutex = t]
    /\ fifoThread' = [fifoThread EXCEPT ![t] =
            [FifoIdle EXCEPT !.pc = "get_locked",
                             !.callAt = <<fifoPort.messageQueue, fifoReturned>>]]
    /\ UNCHANGED <<fifoEmitted, fifoTaken, fifoInjected, fifoReturned, fifoDelivered,
                   fifoCalls, reasmVars, sendVars, bridgeVars, serVars, fwdVars, autoVars, hostVars>>

\* getMessages: one turn of the loop, result.push_back(front()); pop().
FifoGetPop(t) ==
    /\ fifoThread[t].pc = "get_locked"
    /\ fifoPort.messageQueue # <<>>
    /\ fifoThread' = [fifoThread EXCEPT ![t].result = Append(@, Head(fifoPort.messageQueue))]
    /\ fifoPort' = [fifoPort EXCEPT !.messageQueue = Tail(@)]
    /\ UNCHANGED <<fifoEmitted, fifoTaken, fifoInjected, fifoReturned, fifoDelivered,
                   fifoCalls, reasmVars, sendVars, bridgeVars, serVars, fwdVars, autoVars, hostVars>>

\* getMessages: the queue is empty, the lock is released and result returned.
FifoGetReturn(t) ==
    /\ fifoThread[t].pc = "get_locked"
    /\ fifoPort.messageQueue = <<>>
    /\ fifoPort' = [fifoPort EXCEPT !.queueMutex = "none"]
    /\ fifoTaken' = Append(fifoTaken, [ messages |-> fifoThread[t].result,
                                        queueAtCall |-> fifoThread[t].callAt[1],
                                        returnedAtCall |-> fifoThread[t].callAt[2] ])
    /\ fifoThread' = [fifoThread EXCEPT ![t] = FifoIdle]
    /\ UNCHANGED <<fifoEmitted, fifoInjected, fifoReturned, fifoDelivered, fifoCalls,
                   reasmVars, sendVars, bridgeVars, serVars, fwdVars, autoVars, hostVars>>

\* ------------------------------------------------------------------ strings

\* A std::string is the sequence of its characters.  The characters of the
\* model, in ASCII order.
AsciiOrder ==
    << "\"", ",", "-", "/", "0", "1", "2", "3", "4", "5", "6", "7", "8", "9", ":",
       "[", "\\", "]", "a", "b", "c", "d", "e", "f", "g", "h", "i", "j", "k", "l", "m",
       "n", "o", "p", "q", "r", "s", "t", "u", "v", "w", "x", "y", "z", "{", "}" >>

CharCode(c) == CHOOSE i \in 1..Len(AsciiOrder) : AsciiOrder[i] = c

\* operator< of std::string, the order of a std::map<std::string, ...>.
RECURSIVE StrLess(_, _)
StrLess(a, b) ==
    IF b = <<>> THEN FALSE
    ELSE IF a = <<>> THEN TRUE
    ELSE IF Head(a) = Head(b) THEN StrLess(Tail(a), Tail(b))
    ELSE CharCode(Head(a)) < CharCode(Head(b))

\* The keys of a std::map in iteration order.
RECURSIVE SortedKeys(_)
SortedKeys(S) ==
    IF S = {} THEN <<>>
    ELSE LET least == CHOOSE a \in S : \A b \in S \ {a} : StrLess(a, b)
         IN <<least>> \o SortedKeys(S \ {least})

\* s.rfind(prefix, 0) == 0
StartsWith(s, prefix) ==
    Len(s) >= Len(prefix) /\ SubSeq(s, 1, Len(prefix)) = prefix

\* s.substr(pos) with a 0-based pos <= s.size()
SubstrFrom(s, pos) == SubSeq(s, pos + 1, Len(s))

\* s.substr(pos, count): count is a size_t, so a negative difference wraps to
\* a huge count and the rest of the string is taken.
Substr(s, pos, count) ==
    IF count < 0 \/ pos + count > Len(s) THEN SubSeq(s, pos + 1, Len(s))
    ELSE SubSeq(s, pos + 1, pos + count)

\* s.find(c): the 0-based position of the first c, or -1 for npos.
Find(s, c) ==
    IF \E i \in 1..Len(s) : s[i] = c
    THEN (CHOOSE i \in 1..Len(s) : s[i] = c /\ \A j \in 1..(i - 1) : s[j] # c) - 1
    ELSE -1

Digits == <<"0", "1", "2", "3", "4", "5", "6", "7", "8", "9">>
IsDigit(c) == \E d \in 1..10 : Digits[d] = c
DigitValue(c) == (CHOOSE d \in 1..10 : Digits[d] = c) - 1

\* std::to_string(n) and operator<<(int) for n >= 0.
RECURSIVE to_string(_)
to_string(n) ==
    IF n < 10 THEN <<Digits[n + 1]>>
    ELSE to_string(n \div 10) \o <<Digits[(n % 10) + 1]>>

\* std::stoi(s): the value of the leading digits; with no leading digit it
\* throws std::invalid_argument.
RECURSIVE LeadingValue(_, _)
LeadingValue(s, acc) ==
    IF s = <<>> \/ ~IsDigit(Head(s)) THEN acc
    ELSE LeadingValue(Tail(s), acc * 10 + DigitValue(Head(s)))

stoi(s) ==
    IF s = <<>> \/ ~IsDigit(Head(s)) THEN [throws |-> TRUE, value |-> 0]
    ELSE [throws |-> FALSE, value |-> LeadingValue(s, 0)]

VirtualPrefix == <<"v", "i", "r", "t", "u", "a", "l", ":">>
HttpPrefix == <<"h", "t", "t", "p", ":", "/", "/">>
LocalUrl == <<"l", "o", "c", "a", "l">>

\* ------------------------------------------------------------------ routing

\* The threads of SpecBridge: the platform MIDI driver's delivery thread and
\* an HTTP handler thread.
DriverThreads == {"driver"}
HttpThreads == {"http"}
BridgeThreads == DriverThreads \cup HttpThreads

\* The requests and deliveries of SpecBridge.
Vi == <<"v", "i">>
Vo == <<"v", "o">>
R1 == <<"r", "1">>
R2 == <<"r", "2">>
RemoteUrl == HttpPrefix \o <<"h", ":", "1">>
\* The n-th message to arrive in SpecBridge: a note-on whose velocity is n, so
\* that all arrivals differ.
BridgeMessage(n) == <<144, 60, n>>

\* POST /virtual/:portId bodies: an input vi and an output vo.
VirtualRequests ==
    { [portId |-> Vi, type |-> "input"], [portId |-> Vo, type |-> "output"] }

\* POST /routes bodies: a local route virtual:vi -> virtual:vo and a remote
\* route virtual:vi -> http://h:1 virtual:vo, both with a pre-specified id and
\* no portName (so autoOpenPortsForRoute opens nothing).
RouteRequests ==
    { [ id |-> R1, enabled |-> TRUE,
        source |-> [serverUrl |-> LocalUrl, portId |-> VirtualPrefix \o Vi, portName |-> <<>>],
        destination |-> [serverUrl |-> LocalUrl, portId |-> VirtualPrefix \o Vo,
                         portName |-> <<>>] ],
      [ id |-> R2, enabled |-> TRUE,
        source |-> [serverUrl |-> LocalUrl, portId |-> VirtualPrefix \o Vi, portName |-> <<>>],
        destination |-> [serverUrl |-> RemoteUrl, portId |-> VirtualPrefix \o Vo,
                         portName |-> <<>>] ] }

\* std::map: a function on the keys present.
EmptyMap == [k \in {} |-> {}]
MapPut(m, k, v) == [x \in (DOMAIN m) \cup {k} |-> IF x = k THEN v ELSE m[x]]

\* A VirtualMidiPort after the handler of POST /virtual/:portId constructed
\* it, set the routing callback of an input port and opened it.
NewVirtualPort(portId, isInput) ==
    [ portId |-> VirtualPrefix \o portId, isInputPort |-> isInput,
      virtualInput |-> isInput, virtualOutput |-> ~isInput,
      sysexBuffering |-> FALSE, sysexBuffer |-> <<>>, messageQueue |-> <<>>,
      messageCallback |-> isInput ]

\* A thread that runs no handler and no callback.
\* An HTTP response: its status and what its body says ("success:true",
\* "success:false", "error", "route" or "messages").  No response yet.
Respond(status, body) == [status |-> status, body |-> body]
NoResponse == Respond(0, "")

\* No send or inject request yet.
NoRequest ==
    [ n |-> 0, handler |-> "", portId |-> <<>>, message |-> <<>>, found |-> FALSE,
      isInput |-> FALSE, calls |-> <<>> ]

BridgeIdle ==
    [ pc |-> "idle", caller |-> "", sourcePortId |-> <<>>, data |-> <<>>,
      matchingRoutes |-> <<>>, i |-> 1, key |-> <<>>, path |-> <<>>, body |-> <<>> ]

\* RouteManager::isLocalDestination
isLocalDestination(serverUrl) == serverUrl = <<>> \/ serverUrl = LocalUrl

\* RouteManager::getRoutesForSource: copies of the enabled routes of a source,
\* in the order of the map.
getRoutesForSource(routeMap, sourcePortId) ==
    LET keep(id) == routeMap[id].enabled /\ routeMap[id].source.portId = sourcePortId
        ids == SelectSeq(SortedKeys(DOMAIN routeMap), keep)
    IN [n \in 1..Len(ids) |-> routeMap[ids[n]]]

\* ------------------------------------------------------------------ routes file

\* s.find(c, pos): the 0-based position of the first c at or after pos, or -1
\* for npos; pos = -1 stands for a pos of npos.
FindFrom(s, c, pos) ==
    LET hits == IF pos < 0 THEN {} ELSE {i \in (pos + 1)..Len(s) : s[i] = c} IN
    IF hits = {} THEN -1
    ELSE (CHOOSE i \in hits : \A j \in hits : i <= j) - 1

\* s.find(sub, pos) for a string sub.
FindStrFrom(s, sub, pos) ==
    LET hits == IF pos < 0 THEN {}
                ELSE {i \in (pos + 1)..(Len(s) - Len(sub) + 1) :
                         SubSeq(s, i, i + Len(sub) - 1) = sub}
    IN
    IF hits = {} THEN -1
    ELSE (CHOOSE i \in hits : \A j \in hits : i <= j) - 1

\* RouteManager::escapeJson: a double quote and a backslash get a backslash
\* in front of them, a newline, a carriage return and a tab become \n, \r, \t.
RECURSIVE escapeJson(_)
escapeJson(s) ==
    IF s = <<>> THEN <<>>
    ELSE (CASE Head(s) = "\"" -> <<"\\", "\"">>
            [] Head(s) = "\\" -> <<"\\", "\\">>
            [] Head(s) = "\n" -> <<"\\", "n">>
            [] Head(s) = "\r" -> <<"\\", "r">>
            [] Head(s) = "\t" -> <<"\\", "t">>
            [] OTHER -> <<Head(s)>>)
         \o escapeJson(Tail(s))

\* The text saveToDiskUnlocked writes around and between the values.
SavedText ==
    [ fileHead |->
          << "{", "\n", " ", " ", "\"", "r", "o", "u", "t", "e", "s", "\"", ":", " ", "[", "\n" >>,
      fileTail |->
          << "\n", " ", " ", "]", "\n", "}", "\n" >>,
      routeSeparator |->
          << ",", "\n" >>,
      idLead |->
          << " ", " ", " ", " ", "{", "\n", " ", " ", " ", " ", " ", " ", "\"", "i", "d", "\"", ":", " ", "\"" >>,
      enabledLead |->
          << "\"", ",", "\n", " ", " ", " ", " ", " ", " ", "\"", "e", "n", "a", "b", "l", "e", "d", "\"", ":", " " >>,
      trueText |->
          << "t", "r", "u", "e" >>,
      falseText |->
          << "f", "a", "l", "s", "e" >>,
      sourceLead |->
          << ",", "\n", " ", " ", " ", " ", " ", " ", "\"", "s", "o", "u", "r", "c", "e", "\"", ":", " ", "{", "\n" >>,
      destinationLead |->
          << " ", " ", " ", " ", " ", " ", "}", ",", "\n", " ", " ", " ", " ", " ", " ", "\"", "d", "e", "s", "t", "i", "n", "a", "t", "i", "o", "n", "\"", ":", " ", "{", "\n" >>,
      routeTail |->
          << " ", " ", " ", " ", " ", " ", "}", "\n", " ", " ", " ", " ", "}" >>,
      serverUrlLead |->
          << " ", " ", " ", " ", " ", " ", " ", " ", "\"", "s", "e", "r", "v", "e", "r", "U", "r", "l", "\"", ":", " ", "\"" >>,
      portIdLead |->
          << "\"", ",", "\n", " ", " ", " ", " ", " ", " ", " ", " ", "\"", "p", "o", "r", "t", "I", "d", "\"", ":", " ", "\"" >>,
      portNameLead |->
          << "\"", ",", "\n", " ", " ", " ", " ", " ", " ", " ", " ", "\"", "p", "o", "r", "t", "N", "a", "m", "e", "\"", ":", " ", "\"" >>,
      endpointTail |->
          << "\"", "\n" >> ]

\* saveToDiskUnlocked, one endpoint object and one route object.
EndpointText(endpoint) ==
    SavedText.serverUrlLead \o escapeJson(endpoint.serverUrl)
    \o SavedText.portIdLead \o escapeJson(endpoint.portId)
    \o SavedText.portNameLead \o escapeJson(endpoint.portName) \o SavedText.endpointTail

RouteText(route) ==
    SavedText.idLead \o escapeJson(route.id)
    \o SavedText.enabledLead \o (IF route.enabled THEN SavedText.trueText ELSE SavedText.falseText)
    \o SavedText.sourceLead \o EndpointText(route.source)
    \o SavedText.destinationLead \o EndpointText(route.destination) \o SavedText.routeTail

RECURSIVE JoinRoutes(_, _)
JoinRoutes(routeMap, ids) ==
    IF ids = <<>> THEN <<>>
    ELSE RouteText(routeMap[Head(ids)])
         \o (IF Tail(ids) = <<>> THEN <<>>
             ELSE SavedText.routeSeparator \o JoinRoutes(routeMap, Tail(ids)))

\* RouteManager::saveToDiskUnlocked: when the file cannot be opened for
\* writing the failure is logged and the file is left as it is; otherwise it
\* is rewritten with one object per route, in the order of the map, without
\* the counters.
saveToDiskUnlocked(file, routeMap) ==
    IF ~file.writable THEN file
    ELSE [ exists |-> TRUE,
           content |-> SavedText.fileHead
                       \o JoinRoutes(routeMap, SortedKeys(DOMAIN routeMap))
                       \o SavedText.fileTail,
           writable |-> TRUE ]

\* The keys loadFromDisk looks for.
JsonKeys ==
    [ routesKey |->
          << "\"", "r", "o", "u", "t", "e", "s", "\"" >>,
      sourceKey |->
          << "\"", "s", "o", "u", "r", "c", "e", "\"" >>,
      destinationKey |->
          << "\"", "d", "e", "s", "t", "i", "n", "a", "t", "i", "o", "n", "\"" >>,
      idName |->
          << "i", "d" >>,
      enabledName |->
          << "e", "n", "a", "b", "l", "e", "d" >>,
      serverUrlName |->
          << "s", "e", "r", "v", "e", "r", "U", "r", "l" >>,
      portIdName |->
          << "p", "o", "r", "t", "I", "d" >>,
      portNameName |->
          << "p", "o", "r", "t", "N", "a", "m", "e" >> ]

\* RouteManager::extractJsonString: the characters between the first double
\* quote after "key": and the next double quote; nothing is unescaped.
extractJsonString(json, key) ==
    LET searchKey == <<"\"">> \o key \o <<"\"", ":">>
        spacedKey == searchKey \o <<" ">>
        firstPos == FindStrFrom(json, searchKey, 0)
        keyPos == IF firstPos # -1 THEN firstPos ELSE FindStrFrom(json, spacedKey, 0)
        keyLen == IF firstPos # -1 THEN Len(searchKey) ELSE Len(spacedKey)
        valueStart == FindFrom(json, "\"", keyPos + keyLen)
        valueEnd == FindFrom(json, "\"", valueStart + 1)
    IN
    IF keyPos = -1 THEN <<>>
    ELSE IF valueStart = -1 THEN <<>>
    ELSE IF valueEnd = -1 THEN <<>>
    ELSE Substr(json, valueStart + 1, valueEnd - valueStart - 1)

\* RouteManager::extractJsonBool: after "key": and blanks, the next four
\* characters are "true".
extractJsonBool(json, key) ==
    LET searchKey == <<"\"">> \o key \o <<"\"", ":">>
        spacedKey == searchKey \o <<" ">>
        firstPos == FindStrFrom(json, searchKey, 0)
        keyPos == IF firstPos # -1 THEN firstPos ELSE FindStrFrom(json, spacedKey, 0)
        keyLen == IF firstPos # -1 THEN Len(searchKey) ELSE Len(spacedKey)
        afterKey == keyPos + keyLen
        solid == {i \in (afterKey + 1)..Len(json) : json[i] # " " /\ json[i] # "\t"}
        valueStart == IF solid = {} THEN Len(json)
                      ELSE (CHOOSE i \in solid : \A j \in solid : i <= j) - 1
    IN
    IF keyPos = -1 THEN FALSE
    ELSE Substr(json, valueStart, 4) = SavedText.trueText

\* loadFromDisk, the brace matching loop started after the brace at objStart:
\* objEnd is one past the first closing brace that brings the count to 0, or
\* the length of the text when there is none (the count is then not 0).
MatchBrace(content, objStart) ==
    LET closing == {i \in (objStart + 2)..Len(content) :
                      /\ content[i] = "}"
                      /\ Cardinality({j \in (objStart + 2)..i : content[j] = "}"})
                         = 1 + Cardinality({j \in (objStart + 2)..i : content[j] = "{"})}
    IN
    IF closing = {} THEN [objEnd |-> Len(content), braceCount |-> 1]
    ELSE [objEnd |-> CHOOSE i \in closing : \A j \in closing : i <= j, braceCount |-> 0]

\* loadFromDisk, one endpoint of a route object: the text from the brace after
\* "source" or "destination" to the next closing brace.
ParseEndpoint(objStr, sectionKey) ==
    LET sectionStart == FindStrFrom(objStr, sectionKey, 0)
        braceStart == FindFrom(objStr, "{", sectionStart)
        braceEnd == FindFrom(objStr, "}", braceStart)
        text == Substr(objStr, braceStart, braceEnd - braceStart + 1)
    IN
    IF sectionStart # -1 /\ braceStart # -1 /\ braceEnd # -1
    THEN [ serverUrl |-> extractJsonString(text, JsonKeys.serverUrlName),
           portId |-> extractJsonString(text, JsonKeys.portIdName),
           portName |-> extractJsonString(text, JsonKeys.portNameName) ]
    ELSE [serverUrl |-> <<>>, portId |-> <<>>, portName |-> <<>>]

\* loadFromDisk, one route object.
ParseRoute(objStr) ==
    [ id |-> extractJsonString(objStr, JsonKeys.idName),
      enabled |-> extractJsonBool(objStr, JsonKeys.enabledName),
      source |-> ParseEndpoint(objStr, JsonKeys.sourceKey),
      destination |-> ParseEndpoint(objStr, JsonKeys.destinationKey),
      messagesForwarded |-> 0 ]

\* loadFromDisk, the loop over the route objects from position pos on: a route
\* with an empty id or an empty portId is skipped, a later object with the
\* same id replaces an earlier one, an unbalanced object ends the loop.
RECURSIVE ParseRoutes(_, _, _)
ParseRoutes(content, pos, routeMap) ==
    LET objStart == FindFrom(content, "{", pos)
        match == MatchBrace(content, objStart)
        route == ParseRoute(Substr(content, objStart, match.objEnd - objStart))
    IN
    IF objStart = -1 THEN routeMap
    ELSE IF match.braceCount # 0 THEN routeMap
    ELSE ParseRoutes(content, match.objEnd,
                     IF route.id # <<>> /\ route.source.portId # <<>>
                        /\ route.destination.portId # <<>>
                     THEN MapPut(routeMap, route.id, route)
                     ELSE routeMap)

\* RouteManager::loadFromDisk on a RouteManager whose table is routeMap:
\* without a file the table is left alone, otherwise it is cleared and filled
\* from the objects after the bracket of "routes".
loadFromDisk(file, routeMap) ==
    LET routesStart == FindStrFrom(file.content, JsonKeys.routesKey, 0)
        arrayStart == FindFrom(file.content, "[", routesStart)
    IN
    IF ~file.exists THEN routeMap
    ELSE IF routesStart = -1 THEN EmptyMap
    ELSE IF arrayStart = -1 THEN EmptyMap
    ELSE ParseRoutes(file.content, arrayStart, EmptyMap)

\* ------------------------------------------------------------------ route ids and auto-open

\* The alphabet of generateRouteId.
IdChars ==
    << "a", "b", "c", "d", "e", "f", "g", "h", "i", "j", "k", "l", "m", "n", "o", "p",
       "q", "r", "s", "t", "u", "v", "w", "x", "y", "z", "0", "1", "2", "3", "4", "5",
       "6", "7", "8", "9" >>
IdRandChars == 7

\* rand() % 36 of the n-th call of rand() in a process (n from 0).  The
\* program never calls srand, so every process draws the same sequence; the
\* sequence taken here is a fixed one.
rand36(n) == (n * 7 + 11) % 36

\* RouteManager::generateRouteId at time now, when the process has made calls
\* calls of rand(): route-<now>-<7 characters>.
generateRouteId_empty(now, calls) == <<>>

generateRouteId(now, calls) ==
    <<"r", "o", "u", "t", "e", "-">> \o to_string(now) \o <<"-">>
    \o [k \in 1..IdRandChars |-> IdChars[rand36(calls + k - 1) + 1]]

\* device.name.find(portName) != npos
Contains(name, part) == FindStrFrom(name, part, 0) # -1

\* MidiPort::open: the port opens the first device whose name contains
\* portName; without such a device it fails.  (The platform opens every device
\* it lists.)
MidiPort_open(attached, portName) == \E name \in attached : Contains(name, portName)

\* A MidiPort after it was constructed, given the routing callback when it is
\* an input, and opened.
InputPrefix == <<"i", "n", "p", "u", "t", "-">>
NewMidiPort(portId, portName, isInput) ==
    [ portId |-> portId, portName |-> portName, isInputPort |-> isInput,
      input |-> isInput, output |-> ~isInput,
      sysexBuffering |-> FALSE, sysexBuffer |-> <<>>, messageQueue |-> <<>>,
      messageCallback |-> isInput ]

\* MidiHttpServer::isLocalPhysical
isLocalPhysical_anyPrefix(serverUrl, portId) == serverUrl = <<>> \/ serverUrl = LocalUrl
isLocalPhysical(serverUrl, portId) ==
    (serverUrl = <<>> \/ serverUrl = LocalUrl) /\ ~StartsWith(portId, VirtualPrefix)

\* MidiHttpServer::ensureLocalPortOpen: the map of ports afterwards.
ensureLocalPortOpen(portMap, attached, portId, portName) ==
    IF portId \in DOMAIN portMap THEN portMap
    ELSE IF MidiPort_open(attached, portName)
    THEN MapPut(portMap, portId, NewMidiPort(portId, portName, StartsWith(portId, InputPrefix)))
    ELSE portMap

\* MidiHttpServer::autoOpenPortsForRoute: the map of ports afterwards.
autoOpenPortsForRoute(portMap, attached, source, destination) ==
    LET afterSource ==
            IF isLocalPhysical(source.serverUrl, source.portId) /\ source.portName # <<>>
            THEN ensureLocalPortOpen(portMap, attached, source.portId, source.portName)
            ELSE portMap
    IN IF isLocalPhysical(destination.serverUrl, destination.portId)
          /\ destination.portName # <<>>
       THEN ensureLocalPortOpen(afterSource, attached, destination.portId,
                                destination.portName)
       ELSE afterSource

\* MidiHttpServer::autoOpenPortsForAllRoutes over the routes ids, in the order
\* of getAllRoutes.
RECURSIVE autoOpenPortsForAllRoutes(_, _, _, _)
autoOpenPortsForAllRoutes(portMap, attached, routeMap, ids) ==
    IF ids = <<>> THEN portMap
    ELSE autoOpenPortsForAllRoutes(
             autoOpenPortsForRoute(portMap, attached, routeMap[Head(ids)].source,
                                   routeMap[Head(ids)].destination),
             attached, routeMap, Tail(ids))

\* ------------------------------------------------------------------ forwarding

\* RouteManager::forwardToRemoteServer, the parse of serverUrl: host and port,
\* or the exception of std::stoi.
ParseServerUrl(serverUrl) ==
    LET url == IF StartsWith(serverUrl, HttpPrefix) THEN SubstrFrom(serverUrl, 7)
               ELSE serverUrl
        colonPos == Find(url, ":")
        slashPos == Find(url, "/")
        portEnd == IF slashPos # -1 THEN slashPos ELSE Len(url)
        parsed == stoi(Substr(url, colonPos + 1, portEnd - colonPos - 1))
    IN
    IF colonPos # -1
    THEN [throws |-> parsed.throws, host |-> Substr(url, 0, colonPos), port |-> parsed.value]
    ELSE [throws |-> FALSE,
          host |-> IF slashPos # -1 THEN Substr(url, 0, slashPos) ELSE url,
          port |-> 80]

\* RouteManager::forwardToRemoteServer, the path of the POST.
RemotePath(portId) ==
    IF StartsWith(portId, VirtualPrefix)
    THEN <<"/", "v", "i", "r", "t", "u", "a", "l", "/">> \o SubstrFrom(portId, 8)
         \o <<"/", "s", "e", "n", "d">>
    ELSE <<"/", "p", "o", "r", "t", "/">> \o portId \o <<"/", "s", "e", "n", "d">>

\* RouteManager::forwardToRemoteServer, the JSON body: the bytes in decimal.
RECURSIVE JoinBytes(_)
JoinBytes(data) ==
    IF data = <<>> THEN <<>>
    ELSE to_string(Head(data))
         \o (IF Tail(data) = <<>> THEN <<>> ELSE <<",">> \o JoinBytes(Tail(data)))

RemoteBody(data) ==
    <<"{", "\"", "m", "e", "s", "s", "a", "g", "e", "\"", ":", "[">> \o JoinBytes(data)
    \o <<"]", "}">>

\* RouteManager::getForwarder, the key of the forwarders map.
ForwarderKey(host, port) == host \o <<":">> \o to_string(port)

\* A RemoteForwarder after its constructor: the worker waits on its queue.
\* enqueued and posted are history: what send pushed and what run posted.
NewForwarder ==
    [ pendingQueue |-> <<>>, running |-> TRUE, pc |-> "wait", msg |-> <<>>,
      enqueued |-> <<>>, posted |-> <<>> ]

\* RemoteForwarder::run: the message the worker takes, and the queue it leaves.
WorkerDequeue_back(queue) ==
    [msg |-> Last(queue), rest |-> SubSeq(queue, 1, Len(queue) - 1)]

WorkerDequeue(queue) == [msg |-> Head(queue), rest |-> Tail(queue)]

\* Where forwardMessage returns to: a driver callback ends the delivery, the
\* inject handler goes on to its response.
ReturnFrom(thread) ==
    IF thread.caller = "inject" THEN [BridgeIdle EXCEPT !.pc = "inj_return"]
    ELSE BridgeIdle

\* POST /virtual/:portId: the port is constructed and opened, and when open()
\* succeeded it is stored under portsMutex, replacing a port of the same id.
CreateVirtualPort(t, req) ==
    /\ bridgeThread[t].pc = "idle"
    /\ \E success \in BOOLEAN :
         /\ success => MutexFree(portsMutex)
         /\ virtualPorts' =
              IF success
              THEN MapPut(virtualPorts, req.portId,
                          NewVirtualPort(req.portId, req.type = "input"))
              ELSE virtualPorts
         /\ response' = Respond(200, IF success THEN "success:true" ELSE "success:false")
    /\ UNCHANGED <<portsMutex, ports, routes, routesFile, forwarders, bridgeThread,
                   transmitted, dispatched, bridgeArrived, devices, clock, randCalls,
                   restarts, routeOps, request, reasmVars, sendVars, fifoVars, serVars, fwdVars, autoVars>>

\* POST /routes: a request without source.portId or destination.portId is
\* answered with 400; otherwise addRoute stores the route under the id of the
\* request, or under a generated id when the request has none, with a zero
\* counter, and saves the file; autoOpenPortsForRoute opens the local physical
\* ports of the route; the answer is 201.
AddRoute(t, req) ==
    /\ bridgeThread[t].pc = "idle"
    /\ IF req.source.portId = <<>> \/ req.destination.portId = <<>>
       THEN /\ response' = Respond(400, "error")
            /\ UNCHANGED <<routes, routesFile, ports, randCalls>>
       ELSE LET routeId == IF req.id = <<>> THEN generateRouteId(clock, randCalls)
                           ELSE req.id
                locks == \/ isLocalPhysical(req.source.serverUrl, req.source.portId)
                            /\ req.source.portName # <<>>
                         \/ isLocalPhysical(req.destination.serverUrl, req.destination.portId)
                            /\ req.destination.portName # <<>>
            IN /\ locks => MutexFree(portsMutex)
               /\ routes' = MapPut(routes, routeId,
                                   [ id |-> routeId, enabled |-> req.enabled,
                                     source |-> req.source, destination |-> req.destination,
                                     messagesForwarded |-> 0 ])
               /\ routesFile' = saveToDiskUnlocked(routesFile, routes')
               /\ randCalls' = IF req.id = <<>> THEN randCalls + IdRandChars ELSE randCalls
               /\ ports' = autoOpenPortsForRoute(ports, devices, req.source, req.destination)
               /\ response' = Respond(201, "route")
    /\ UNCHANGED <<portsMutex, virtualPorts, forwarders, bridgeThread, transmitted,
                   dispatched, bridgeArrived, devices, clock, restarts,
                   request, reasmVars, sendVars, fifoVars, serVars, fwdVars, autoVars>>
    /\ routeOps' = routeOps + 1

\* RouteManager::setRouteEnabled on the table and the file: false for an
\* unknown id, otherwise the flag is set, the file saved and true returned.
setRouteEnabled_reset(table, file, routeId, enabled) ==
    LET changed == [table EXCEPT ![routeId].enabled = enabled,
                                 ![routeId].messagesForwarded = 0]
    IN IF routeId \notin DOMAIN table
       THEN [routes |-> table, file |-> file, result |-> FALSE]
       ELSE [routes |-> changed, file |-> saveToDiskUnlocked(file, changed),
             result |-> TRUE]

setRouteEnabled_rollback(table, file, routeId, enabled) ==
    LET changed == [table EXCEPT ![routeId].enabled = enabled]
    IN IF routeId \notin DOMAIN table \/ ~file.writable
       THEN [routes |-> table, file |-> file, result |-> FALSE]
       ELSE [routes |-> changed, file |-> saveToDiskUnlocked(file, changed),
             result |-> TRUE]

setRouteEnabled(table, file, routeId, enabled) ==
    LET changed == [table EXCEPT ![routeId].enabled = enabled]
    IN IF routeId \notin DOMAIN table
       THEN [routes |-> table, file |-> file, result |-> FALSE]
       ELSE [routes |-> changed, file |-> saveToDiskUnlocked(file, changed),
             result |-> TRUE]

\* RouteManager::removeRoute on the table and the file: false for an unknown
\* id, otherwise the route is erased, the file saved and true returned.
removeRoute_unsaved(table, file, routeId) ==
    LET changed == [id \in DOMAIN table \ {routeId} |-> table[id]]
    IN IF routeId \notin DOMAIN table
       THEN [routes |-> table, file |-> file, result |-> FALSE]
       ELSE [routes |-> changed, file |-> file, result |-> TRUE]

removeRoute(table, file, routeId) ==
    LET changed == [id \in DOMAIN table \ {routeId} |-> table[id]]
    IN IF routeId \notin DOMAIN table
       THEN [routes |-> table, file |-> file, result |-> FALSE]
       ELSE [routes |-> changed, file |-> saveToDiskUnlocked(file, changed),
             result |-> TRUE]

\* PUT /routes/:routeId: 200 when setRouteEnabled returned true, 404 when it
\* returned false.
SetRouteEnabled(t, routeId, enabled) ==
    /\ bridgeThread[t].pc = "idle"
    /\ LET done == setRouteEnabled(routes, routesFile, routeId, enabled)
       IN /\ routes' = done.routes
          /\ routesFile' = done.file
          /\ response' = IF done.result THEN Respond(200, "success:true")
                         ELSE Respond(404, "error")
    /\ routeOps' = routeOps + 1
    /\ UNCHANGED <<portsMutex, ports, virtualPorts, forwarders, bridgeThread,
                   transmitted, dispatched, bridgeArrived, devices, clock, randCalls,
                   restarts, request, reasmVars, sendVars, fifoVars, serVars, fwdVars, autoVars>>

\* DELETE /routes/:routeId: 200 when removeRoute returned true, 404 when it
\* returned false.
RemoveRoute(t, routeId) ==
    /\ bridgeThread[t].pc = "idle"
    /\ LET done == removeRoute(routes, routesFile, routeId)
       IN /\ routes' = done.routes
          /\ routesFile' = done.file
          /\ response' = IF done.result THEN Respond(200, "success:true")
                         ELSE Respond(404, "error")
    /\ routeOps' = routeOps + 1
    /\ UNCHANGED <<portsMutex, ports, virtualPorts, forwarders, bridgeThread,
                   transmitted, dispatched, bridgeArrived, devices, clock, randCalls,
                   restarts, request, reasmVars, sendVars, fifoVars, serVars, fwdVars, autoVars>>

\* The process is stopped and started again, `elapsed` seconds after it was
\* started before: the RouteManager of the new process loads the routes file,
\* startServer opens the ports of the loaded routes, and no virtual port,
\* forwarder or thread of the old process is left.
Restart(elapsed) ==
    /\ restarts < MaxRestarts
    /\ restarts' = restarts + 1
    /\ clock' = clock + elapsed
    /\ routes' = loadFromDisk(routesFile, EmptyMap)
    /\ ports' = autoOpenPortsForAllRoutes(EmptyMap, devices, routes',
                                          SortedKeys(DOMAIN routes'))
    /\ virtualPorts' = EmptyMap
    /\ forwarders' = EmptyMap
    /\ portsMutex' = "none"
    /\ bridgeThread' = [t \in BridgeThreads |-> BridgeIdle]
    /\ randCalls' = 0
    /\ response' = NoResponse
    /\ request' = NoRequest
    /\ UNCHANGED <<routesFile, transmitted, dispatched, bridgeArrived, devices,
                   routeOps, reasmVars, sendVars, fifoVars, serVars, fwdVars, autoVars>>

\* The routes file becomes unwritable for the process, or writable again
\* (its permissions, the space left on the disk).
SetWritable(writable) ==
    /\ routesFile.writable # writable
    /\ routesFile' = [routesFile EXCEPT !.writable = writable]
    /\ UNCHANGED <<portsMutex, ports, virtualPorts, routes, forwarders, bridgeThread,
                   transmitted, dispatched, bridgeArrived, hostVars, reasmVars, sendVars,
                   fifoVars, serVars, fwdVars, autoVars>>

\* A MIDI device is attached to the host.
AttachDevice(name) ==
    /\ name \notin devices
    /\ devices' = devices \cup {name}
    /\ UNCHANGED <<clock, randCalls, restarts, routeOps, response, request, reasmVars, sendVars, fifoVars,
                   bridgeVars, serVars, fwdVars, autoVars>>

\* POST /port/:portId with name and type: a MidiPort is constructed, given the
\* routing callback when it is an input, and opened; when open() succeeded it
\* is stored under portsMutex, replacing (and destroying) a port of the same
\* id; the answer is 200 with the result of open().
OpenPort(t, portId, name, type) ==
    /\ bridgeThread[t].pc = "idle"
    /\ LET success == MidiPort_open(devices, name) IN
       /\ success => MutexFree(portsMutex)
       /\ ports' = IF success
                   THEN MapPut(ports, portId, NewMidiPort(portId, name, type = "input"))
                   ELSE ports
       /\ response' = Respond(200, IF success THEN "success:true" ELSE "success:false")
    /\ UNCHANGED <<portsMutex, virtualPorts, routes, routesFile, forwarders, bridgeThread,
                   transmitted, dispatched, bridgeArrived, devices, clock, randCalls,
                   restarts, routeOps, request, reasmVars, sendVars, fifoVars, serVars, fwdVars, autoVars>>

\* DELETE /port/:portId: the port is erased under portsMutex; the answer is 200
\* and tells whether there was one.
ClosePort(t, portId) ==
    /\ bridgeThread[t].pc = "idle"
    /\ MutexFree(portsMutex)
    /\ ports' = [id \in DOMAIN ports \ {portId} |-> ports[id]]
    /\ response' = Respond(200, IF portId \in DOMAIN ports THEN "success:true"
                                ELSE "success:false")
    /\ UNCHANGED <<portsMutex, virtualPorts, routes, routesFile, forwarders, bridgeThread,
                   transmitted, dispatched, bridgeArrived, devices, clock, randCalls,
                   restarts, routeOps, request, reasmVars, sendVars, fifoVars, serVars, fwdVars, autoVars>>

\* DELETE /virtual/:portId
DeleteVirtualPort(t, portId) ==
    /\ bridgeThread[t].pc = "idle"
    /\ MutexFree(portsMutex)
    /\ virtualPorts' = [id \in DOMAIN virtualPorts \ {portId} |-> virtualPorts[id]]
    /\ response' = Respond(200, IF portId \in DOMAIN virtualPorts THEN "success:true"
                                ELSE "success:false")
    /\ UNCHANGED <<portsMutex, ports, routes, routesFile, forwarders, bridgeThread,
                   transmitted, dispatched, bridgeArrived, devices, clock, randCalls,
                   restarts, routeOps, request, reasmVars, sendVars, fifoVars, serVars, fwdVars, autoVars>>

\* The transmit calls of a sendMessage, with the id of the port that made them.
PortCalls(portId, calls) ==
    [n \in 1..Len(calls) |->
        [port |-> portId, primitive |-> calls[n].primitive, bytes |-> calls[n].bytes]]

\* POST /port/:portId/send with the message array `message`, under
\* portsMutex: 404 without the port; 400 for an empty message and for the
\* single byte 0xF0; otherwise sendMessage is called and the answer is 200
\* with success true.
SendPort(t, portId, message) ==
    /\ bridgeThread[t].pc = "idle"
    /\ MutexFree(portsMutex)
    /\ LET found == portId \in DOMAIN ports
           rejected == message = <<>> \/ message = <<F0>>
           calls == IF found /\ ~rejected
                    THEN PortCalls(portId, MidiPort_transmit(ports[portId].output, message))
                    ELSE <<>>
       IN
       /\ request' = [ n |-> request.n + 1, handler |-> "send", portId |-> portId,
                       message |-> message, found |-> found,
                       isInput |-> IF found THEN ports[portId].isInputPort ELSE FALSE,
                       calls |-> calls ]
       /\ transmitted' = transmitted \o calls
       /\ response' = IF ~found THEN Respond(404, "error")
                      ELSE IF rejected THEN Respond(400, "success:false")
                      ELSE Respond(200, "success:true")
    /\ UNCHANGED <<portsMutex, ports, virtualPorts, routes, routesFile, forwarders,
                   bridgeThread, dispatched, bridgeArrived, devices, clock, randCalls,
                   restarts, routeOps, reasmVars, sendVars, fifoVars, serVars, fwdVars, autoVars>>

\* POST /virtual/:portId/send with the message array `message`, under
\* portsMutex: 404 without the port; 400 for an input port and for an empty
\* message; otherwise sendMessage is called and the answer is 200 with success
\* true.
SendVirtual(t, portId, message) ==
    /\ bridgeThread[t].pc = "idle"
    /\ MutexFree(portsMutex)
    /\ LET found == portId \in DOMAIN virtualPorts
           isInput == IF found THEN virtualPorts[portId].isInputPort ELSE FALSE
           calls == IF found /\ ~isInput /\ message # <<>>
                    THEN PortCalls(virtualPorts[portId].portId,
                                   VirtualMidiPort_transmit(virtualPorts[portId].virtualOutput,
                                                            message))
                    ELSE <<>>
       IN
       /\ request' = [ n |-> request.n + 1, handler |-> "vsend", portId |-> portId,
                       message |-> message, found |-> found, isInput |-> isInput,
                       calls |-> calls ]
       /\ transmitted' = transmitted \o calls
       /\ response' = IF ~found THEN Respond(404, "error")
                      ELSE IF isInput THEN Respond(400, "error")
                      ELSE IF message = <<>> THEN Respond(400, "success:false")
                      ELSE Respond(200, "success:true")
    /\ UNCHANGED <<portsMutex, ports, virtualPorts, routes, routesFile, forwarders,
                   bridgeThread, dispatched, bridgeArrived, devices, clock, randCalls,
                   restarts, routeOps, reasmVars, sendVars, fifoVars, serVars, fwdVars, autoVars>>

\* POST /virtual/:portId/inject with the message array `message`: the handler
\* takes portsMutex, answers 404 or 400 for a missing port, an output port or
\* an empty message, and otherwise calls injectMessage, which pushes the
\* message and invokes the routing callback (forwardMessage) while the handler
\* still holds portsMutex.
InjectMessage(t, portId, message) ==
    /\ bridgeThread[t].pc = "idle"
    /\ MutexFree(portsMutex)
    /\ request' = [ n |-> request.n + 1, handler |-> "inject", portId |-> portId,
                    message |-> message, found |-> portId \in DOMAIN virtualPorts,
                    isInput |-> IF portId \in DOMAIN virtualPorts
                                THEN virtualPorts[portId].isInputPort ELSE FALSE,
                    calls |-> <<>> ]
    /\ IF portId \notin DOMAIN virtualPorts
       THEN /\ response' = Respond(404, "error")
            /\ UNCHANGED <<portsMutex, virtualPorts, bridgeThread, bridgeArrived>>
       ELSE IF ~virtualPorts[portId].isInputPort
       THEN /\ response' = Respond(400, "error")
            /\ UNCHANGED <<portsMutex, virtualPorts, bridgeThread, bridgeArrived>>
       ELSE IF message = <<>>
       THEN /\ response' = Respond(400, "success:false")
            /\ UNCHANGED <<portsMutex, virtualPorts, bridgeThread, bridgeArrived>>
       ELSE /\ bridgeArrived < MaxBridgeMsgs
            /\ portsMutex' = t
            /\ UNCHANGED response
            /\ virtualPorts' =
                 [virtualPorts EXCEPT ![portId].messageQueue = QueuePush(@, message)]
            /\ bridgeArrived' = bridgeArrived + 1
            /\ bridgeThread' = [bridgeThread EXCEPT ![t] =
                 IF virtualPorts[portId].messageCallback
                 THEN [BridgeIdle EXCEPT !.pc = "fm_routes", !.caller = "inject",
                                         !.sourcePortId = virtualPorts[portId].portId,
                                         !.data = message]
                 ELSE [BridgeIdle EXCEPT !.pc = "inj_return"]]
    /\ UNCHANGED <<ports, routes, routesFile, forwarders, transmitted, dispatched,
                   devices, clock, randCalls, restarts, routeOps,
                   reasmVars, sendVars, fifoVars, serVars, fwdVars, autoVars>>

\* The inject handler after injectMessage returned: 200, and portsMutex is
\* released.
InjectReturn(t) ==
    /\ bridgeThread[t].pc = "inj_return"
    /\ portsMutex' = "none"
    /\ bridgeThread' = [bridgeThread EXCEPT ![t] = BridgeIdle]
    /\ response' = Respond(200, "success:true")
    /\ UNCHANGED <<ports, virtualPorts, routes, routesFile, forwarders, transmitted,
                   dispatched, bridgeArrived, devices, clock, randCalls, restarts, routeOps,
                   request, reasmVars, sendVars, fifoVars, serVars, fwdVars, autoVars>>

\* The driver delivers `raw` to an open virtual input:
\* handleIncomingMidiMessage runs its locked block and, holding no lock,
\* invokes the routing callback (forwardMessage) with a completed message.
DriverDeliver(t, portId, raw) ==
    /\ bridgeThread[t].pc = "idle"
    /\ portId \in DOMAIN virtualPorts
    /\ virtualPorts[portId].virtualInput
    /\ bridgeArrived < MaxBridgeMsgs
    /\ LET r == VirtualMidiPort_reassemble(virtualPorts[portId], raw) IN
       /\ virtualPorts' = [virtualPorts EXCEPT ![portId] = r.port]
       /\ bridgeThread' = [bridgeThread EXCEPT ![t] =
            IF r.completedMessage # <<>> /\ r.port.messageCallback
            THEN [BridgeIdle EXCEPT !.pc = "fm_routes", !.caller = "driver",
                                    !.sourcePortId = r.port.portId,
                                    !.data = r.completedMessage]
            ELSE BridgeIdle]
    /\ bridgeArrived' = bridgeArrived + 1
    /\ UNCHANGED <<portsMutex, ports, routes, routesFile, forwarders,
                   transmitted, dispatched, reasmVars, sendVars, fifoVars, serVars, fwdVars, autoVars, hostVars>>

\* forwardMessage, its head: getRoutesForSource copies the matching routes
\* under routesMutex and releases it; with no route it returns; the local
\* forwarder (set by the server's constructor) is copied.
ForwardCollect(t) ==
    /\ bridgeThread[t].pc = "fm_routes"
    /\ LET matchingRoutes == getRoutesForSource(routes, bridgeThread[t].sourcePortId) IN
       bridgeThread' = [bridgeThread EXCEPT ![t] =
            IF matchingRoutes = <<>> THEN ReturnFrom(@)
            ELSE [@ EXCEPT !.pc = "fm_dispatch", !.matchingRoutes = matchingRoutes,
                           !.i = 1]]
    /\ UNCHANGED <<portsMutex, ports, virtualPorts, routes, routesFile, forwarders,
                   transmitted, dispatched, bridgeArrived,
                   reasmVars, sendVars, fifoVars, serVars, fwdVars, autoVars, hostVars>>

\* forwardMessage, the loop body: forwardToDestination for the next copied
\* route.  A local destination calls the local forwarder
\* (forwardToLocalDestination); a remote one parses the URL (std::stoi may
\* throw) and gets the forwarder of host:port, creating it on first use.
ForwardDispatch(t) ==
    /\ bridgeThread[t].pc = "fm_dispatch"
    /\ LET thread == bridgeThread[t]
           route == thread.matchingRoutes[thread.i]
           dest == route.destination
           parsed == ParseServerUrl(dest.serverUrl)
           key == ForwarderKey(parsed.host, parsed.port)
       IN
       /\ dispatched' = [dispatched EXCEPT ![route.id] = @ + 1]
       /\ IF isLocalDestination(dest.serverUrl)
          THEN /\ bridgeThread' = [bridgeThread EXCEPT ![t].pc = "fl_lock"]
               /\ UNCHANGED forwarders
          ELSE IF parsed.throws
          THEN /\ bridgeThread' = [bridgeThread EXCEPT ![t].pc = "unwind"]
               /\ UNCHANGED forwarders
          ELSE /\ bridgeThread' = [bridgeThread EXCEPT ![t] =
                    [@ EXCEPT !.pc = "fr_send", !.key = key,
                              !.path = RemotePath(dest.portId),
                              !.body = RemoteBody(thread.data)]]
               /\ forwarders' = IF key \in DOMAIN forwarders THEN forwarders
                                ELSE MapPut(forwarders, key, NewForwarder)
    /\ UNCHANGED <<portsMutex, ports, virtualPorts, routes, routesFile,
                   transmitted, bridgeArrived, reasmVars, sendVars, fifoVars, serVars, fwdVars, autoVars, hostVars>>

\* RemoteForwarder::send: the message is pushed on the pending queue under the
\* forwarder's queueMutex.
ForwarderSend(t) ==
    /\ bridgeThread[t].pc = "fr_send"
    /\ LET thread == bridgeThread[t]
           message == [path |-> thread.path, body |-> thread.body]
       IN
       forwarders' = [forwarders EXCEPT ![thread.key] =
            [@ EXCEPT !.pendingQueue = Append(@, message),
                      !.enqueued = Append(@, message)]]
    /\ bridgeThread' = [bridgeThread EXCEPT ![t].pc = "fm_count"]
    /\ UNCHANGED <<portsMutex, ports, virtualPorts, routes, routesFile,
                   transmitted, dispatched, bridgeArrived, reasmVars, sendVars, fifoVars, serVars, fwdVars, autoVars, hostVars>>

\* What forwardToLocalDestination hands to the platform under portsMutex.
LocalTransmit_eitherMap(destPortId, data) ==
    LET virtualId == SubstrFrom(destPortId, 8)
        calls ==
          IF StartsWith(destPortId, VirtualPrefix) /\ virtualId \in DOMAIN virtualPorts
          THEN VirtualMidiPort_transmit(virtualPorts[virtualId].virtualOutput, data)
          ELSE IF destPortId \in DOMAIN ports
          THEN MidiPort_transmit(ports[destPortId].output, data)
          ELSE IF destPortId \in DOMAIN virtualPorts
          THEN VirtualMidiPort_transmit(virtualPorts[destPortId].virtualOutput, data)
          ELSE <<>>
    IN [n \in 1..Len(calls) |->
          [port |-> destPortId, primitive |-> calls[n].primitive, bytes |-> calls[n].bytes]]

LocalTransmit(destPortId, data) ==
    LET calls ==
          IF StartsWith(destPortId, VirtualPrefix)
          THEN LET virtualId == SubstrFrom(destPortId, 8) IN
               IF virtualId \in DOMAIN virtualPorts
               THEN VirtualMidiPort_transmit(virtualPorts[virtualId].virtualOutput, data)
               ELSE <<>>
          ELSE IF destPortId \in DOMAIN ports
          THEN MidiPort_transmit(ports[destPortId].output, data)
          ELSE <<>>
    IN [n \in 1..Len(calls) |->
          [port |-> destPortId, primitive |-> calls[n].primitive, bytes |-> calls[n].bytes]]

\* forwardToLocalDestination called by a thread that does not hold
\* portsMutex: it takes the mutex, sends on the destination port if there is
\* one, and releases the mutex.
ForwardToLocalDestination(t) ==
    /\ bridgeThread[t].pc = "fl_lock"
    /\ portsMutex # t
    /\ MutexFree(portsMutex)
    /\ LET thread == bridgeThread[t]
           destPortId == thread.matchingRoutes[thread.i].destination.portId
       IN transmitted' = transmitted \o LocalTransmit(destPortId, thread.data)
    /\ bridgeThread' = [bridgeThread EXCEPT ![t].pc = "fm_count"]
    /\ UNCHANGED <<portsMutex, ports, virtualPorts, routes, routesFile, forwarders,
                   dispatched, bridgeArrived, reasmVars, sendVars, fifoVars, serVars, fwdVars, autoVars, hostVars>>

\* forwardToLocalDestination called by the thread that holds portsMutex: the
\* lock_guard locks a std::mutex its thread owns, which is undefined.  The
\* builds either block the thread for good or throw std::system_error.
RelockPortsMutex(t) ==
    /\ bridgeThread[t].pc = "fl_lock"
    /\ portsMutex = t
    /\ \E outcome \in {"deadlocked", "unwind"} :
         bridgeThread' = [bridgeThread EXCEPT ![t].pc = outcome]
    /\ UNCHANGED <<portsMutex, ports, virtualPorts, routes, routesFile, forwarders,
                   transmitted, dispatched, bridgeArrived,
                   reasmVars, sendVars, fifoVars, serVars, fwdVars, autoVars, hostVars>>

\* The end of the loop body with routes[route.id] = route in place of the
\* find: the copy taken by getRoutesForSource is counted and stored.
ForwardCount_storeCopy(t) ==
    /\ bridgeThread[t].pc = "fm_count"
    /\ LET thread == bridgeThread[t]
           route == thread.matchingRoutes[thread.i]
       IN
       /\ routes' = MapPut(routes, route.id,
                           [route EXCEPT !.messagesForwarded = @ + 1])
       /\ bridgeThread' = [bridgeThread EXCEPT ![t] =
            IF thread.i < Len(thread.matchingRoutes)
            THEN [@ EXCEPT !.pc = "fm_dispatch", !.i = @ + 1, !.key = <<>>,
                           !.path = <<>>, !.body = <<>>]
            ELSE ReturnFrom(@)]
    /\ UNCHANGED <<portsMutex, ports, virtualPorts, routesFile, forwarders,
                   transmitted, dispatched, bridgeArrived, reasmVars, sendVars, fifoVars, serVars, fwdVars, autoVars, hostVars>>

\* forwardMessage, the end of the loop body: the counter of the route is
\* incremented under routesMutex if the route still exists; then the next
\* copied route, or the return.
ForwardCount(t) ==
    /\ bridgeThread[t].pc = "fm_count"
    /\ LET thread == bridgeThread[t]
           id == thread.matchingRoutes[thread.i].id
       IN
       /\ routes' = IF id \in DOMAIN routes
                    THEN [routes EXCEPT ![id].messagesForwarded = @ + 1]
                    ELSE routes
       /\ bridgeThread' = [bridgeThread EXCEPT ![t] =
            IF thread.i < Len(thread.matchingRoutes)
            THEN [@ EXCEPT !.pc = "fm_dispatch", !.i = @ + 1, !.key = <<>>,
                           !.path = <<>>, !.body = <<>>]
            ELSE ReturnFrom(@)]
    /\ UNCHANGED <<portsMutex, ports, virtualPorts, routesFile, forwarders,
                   transmitted, dispatched, bridgeArrived, reasmVars, sendVars, fifoVars, serVars, fwdVars, autoVars, hostVars>>

\* An exception leaves forwardMessage.  In the inject handler it is caught:
\* 400, and portsMutex is released.  Nothing catches it on the driver's
\* thread.
Unwind(t) ==
    /\ bridgeThread[t].pc = "unwind"
    /\ IF bridgeThread[t].caller = "inject"
       THEN /\ portsMutex' = "none"
            /\ bridgeThread' = [bridgeThread EXCEPT ![t] = BridgeIdle]
            /\ response' = Respond(400, "error")
       ELSE /\ bridgeThread' = [bridgeThread EXCEPT ![t].pc = "terminated"]
            /\ UNCHANGED <<portsMutex, response>>
    /\ UNCHANGED <<ports, virtualPorts, routes, routesFile, forwarders, transmitted,
                   dispatched, bridgeArrived, devices, clock, randCalls, restarts, routeOps,
                   request, reasmVars, sendVars, fifoVars, serVars, fwdVars, autoVars>>

\* RemoteForwarder::run, the locked block: the worker waits until the queue
\* is non-empty or running is false, returns when stopped with an empty
\* queue, and otherwise takes the front message.
WorkerTake(key) ==
    /\ forwarders[key].pc = "wait"
    /\ forwarders[key].pendingQueue # <<>> \/ ~forwarders[key].running
    /\ LET taken == WorkerDequeue(forwarders[key].pendingQueue) IN
       forwarders' = [forwarders EXCEPT ![key] =
         IF ~@.running /\ @.pendingQueue = <<>>
         THEN [@ EXCEPT !.pc = "exited"]
         ELSE [@ EXCEPT !.pc = "post", !.msg = taken.msg, !.pendingQueue = taken.rest]]
    /\ UNCHANGED <<portsMutex, ports, virtualPorts, routes, routesFile, bridgeThread,
                   transmitted, dispatched, bridgeArrived,
                   reasmVars, sendVars, fifoVars, serVars, fwdVars, autoVars, hostVars>>

\* RemoteForwarder::run, the POST of the taken message, outside the lock.  A
\* failed POST is logged and not retried.
WorkerPost(key) ==
    /\ forwarders[key].pc = "post"
    /\ forwarders' = [forwarders EXCEPT ![key] =
         [@ EXCEPT !.pc = "wait", !.posted = Append(@, forwarders[key].msg),
                   !.msg = <<>>]]
    /\ UNCHANGED <<portsMutex, ports, virtualPorts, routes, routesFile, bridgeThread,
                   transmitted, dispatched, bridgeArrived,
                   reasmVars, sendVars, fifoVars, serVars, fwdVars, autoVars, hostVars>>

\* ------------------------------------------------------------------ round trip of the routes file

\* Values of the string members of a route: plain, and with a double quote, a
\* backslash, a closing brace, an opening brace.
PlainName == <<"a">>
BackslashName == <<"a", "\\">>
SerStrings ==
    {PlainName, <<"a", "\"", "b">>, BackslashName, <<"a", "}">>, <<"{", "a">>}

\* A MidiRoute of the list: its portName of the source is the string under
\* test, the other members are plain.  (SpecRoundTrip also builds routes
\* without id and without source.portId, which the file then holds as
\* malformed entries.)
SerRoute(id, enabled, name, count) ==
    [ id |-> id, enabled |-> enabled,
      source |-> [serverUrl |-> LocalUrl, portId |-> <<"i">>, portName |-> name],
      destination |-> [serverUrl |-> LocalUrl, portId |-> <<"o">>, portName |-> PlainName],
      messagesForwarded |-> count ]

\* One more route in the list in memory.
SerBuild(route) ==
    /\ serStep = "build"
    /\ route.id \notin DOMAIN serRoutes
    /\ Cardinality(DOMAIN serRoutes) < MaxSerRoutes
    /\ serRoutes' = MapPut(serRoutes, route.id, route)
    /\ UNCHANGED <<serFile, serLoaded, serStep, reasmVars, sendVars, fifoVars, bridgeVars,
                   hostVars, fwdVars, autoVars>>

\* saveToDiskUnlocked on the list.
SerSave ==
    /\ serStep = "build"
    /\ serFile' = saveToDiskUnlocked(serFile, serRoutes)
    /\ serStep' = "saved"
    /\ UNCHANGED <<serRoutes, serLoaded, reasmVars, sendVars, fifoVars, bridgeVars, hostVars, fwdVars, autoVars>>

\* loadFromDisk of a RouteManager constructed on the file.
SerLoad ==
    /\ serStep = "saved"
    /\ serLoaded' = loadFromDisk(serFile, EmptyMap)
    /\ serStep' = "loaded"
    /\ UNCHANGED <<serRoutes, serFile, reasmVars, sendVars, fifoVars, bridgeVars, hostVars, fwdVars, autoVars>>

\* ------------------------------------------------------------------ requests of SpecRoutes

\* The devices that can be attached.
DeviceNames == { <<"a">>, <<"b">> }

Input0 == InputPrefix \o <<"0">>
Output0 == <<"o", "u", "t", "p", "u", "t", "-", "0">>
Synth == <<"s", "y", "n", "t", "h">>

\* POST /routes bodies: without id, from the input of device a to the output
\* of device b; r1, from a virtual port to a remote port, whose portName ends
\* with a backslash; r2, disabled, from an input without portName to a local
\* port without direction prefix; and one without source.portId.
StoreRequests ==
    { [ id |-> <<>>, enabled |-> TRUE,
        source |-> [serverUrl |-> LocalUrl, portId |-> Input0, portName |-> <<"a">>],
        destination |-> [serverUrl |-> <<>>, portId |-> Output0, portName |-> <<"b">>] ],
      [ id |-> R1, enabled |-> TRUE,
        source |-> [serverUrl |-> LocalUrl, portId |-> VirtualPrefix \o Vi,
                    portName |-> <<"a">>],
        destination |-> [serverUrl |-> RemoteUrl, portId |-> Output0,
                         portName |-> BackslashName] ],
      [ id |-> R2, enabled |-> FALSE,
        source |-> [serverUrl |-> LocalUrl, portId |-> InputPrefix \o <<"1">>, portName |-> <<>>],
        destination |-> [serverUrl |-> LocalUrl, portId |-> Synth, portName |-> <<"b">>] ],
      [ id |-> R2, enabled |-> TRUE,
        source |-> [serverUrl |-> LocalUrl, portId |-> <<>>, portName |-> <<"a">>],
        destination |-> [serverUrl |-> LocalUrl, portId |-> Synth, portName |-> <<"b">>] ] }

\* ------------------------------------------------------------------ requests of SpecPorts

\* POST /virtual/:portId bodies for one id: an input and an output.
PortRequests ==
    { [portId |-> Vi, type |-> "input"], [portId |-> Vi, type |-> "output"] }

\* Message arrays of send requests: empty, a lone 0xF0, a SysEx without its
\* 0xF7, a SysEx, a note-on, and four bytes that are not a SysEx.
PortMessages ==
    { <<>>, <<F0>>, <<F0, 1>>, <<F0, 1, F7>>, <<144, 60, 127>>, <<144, 60, 127, 0>> }

\* ------------------------------------------------------------------ requests of SpecHotPath

\* POST /routes bodies: r1 from virtual:vi to a server whose URL
\* forwardToRemoteServer was not written for (https://h:1, another scheme,
\* http://h:abc, a port that is not a number, and http://h/a:5, no port and a
\* path with a colon), and the remote route r2 of RouteRequests from the same
\* source.
HotPathRequests ==
    { [ id |-> R1, enabled |-> TRUE,
        source |-> [serverUrl |-> LocalUrl, portId |-> VirtualPrefix \o Vi, portName |-> <<>>],
        destination |-> [serverUrl |-> url, portId |-> VirtualPrefix \o Vo,
                         portName |-> <<>>] ] :
        url \in { <<"h", "t", "t", "p", "s", ":", "/", "/", "h", ":", "1">>,
                  HttpPrefix \o <<"h", ":", "a", "b", "c">>,
                  HttpPrefix \o <<"h", "/", "a", ":", "5">> } }
    \cup {r \in RouteRequests : r.id = R2}

\* ------------------------------------------------------------------ RemoteForwarder under threads

\* The threads that call forwardMessage, and the remote servers of the routes.
FwdThreads == {"driver", "http"}
FwdKeys == {ForwarderKey(<<"h">>, 1), ForwarderKey(<<"h">>, 2)}

\* What client.Post can come to: status 200, another status, no response, an
\* exception.
PostOutcomes == {"200", "500", "no response", "exception"}

\* A RemoteForwarder after its constructor: the worker thread is started and
\* has yet to lock queueMutex.  enqueued and attempts are history: what send
\* pushed, and what run POSTed with the outcome.
NewRemoteForwarder ==
    [ pendingQueue |-> <<>>, queueMutex |-> "none", running |-> TRUE, pc |-> "w_lock",
      msg |-> 0, enqueued |-> <<>>, attempts |-> <<>> ]

\* cv.notify_one(): a worker blocked in cv.wait goes on to lock queueMutex
\* again; a notify that finds no waiter has no effect.
notify_one_lost(f) == f

notify_one(f) == IF f.pc = "cv_wait" THEN [f EXCEPT !.pc = "w_lock"] ELSE f

\* RemoteForwarder::run, the end of the locked block: after the pop the
\* unique_lock goes out of scope.
UnlockAfterPop_keep(f) == f

UnlockAfterPop(f) == [f EXCEPT !.queueMutex = "none"]

\* RemoteForwarder::run, the catch and the failure branch: the outcome is
\* logged, and the queue is as it was.
AfterPost_requeue(queue, msg, outcome) ==
    IF outcome = "200" THEN queue ELSE Append(queue, msg)

AfterPost(queue, msg, outcome) == queue

\* RouteManager::getForwarder(key): the forwarder of the key, constructed on
\* first use.
getForwarder_always(map, key) == MapPut(map, key, NewRemoteForwarder)

getForwarder(map, key) ==
    IF key \in DOMAIN map THEN map ELSE MapPut(map, key, NewRemoteForwarder)

\* forwardToRemoteServer calls getForwarder(host, port): the lock_guard on
\* forwardersMutex.  The n-th send carries the item n.
FwdGetLock(t, key) ==
    /\ fwdThread[t].pc = "idle"
    /\ fwdDtor.pc = "idle"
    /\ fwdSends < MaxSends
    /\ MutexFree(forwardersMutex)
    /\ forwardersMutex' = t
    /\ fwdThread' = [fwdThread EXCEPT ![t] = [pc |-> "gf_find", key |-> key,
                                               item |-> fwdSends + 1]]
    /\ fwdSends' = fwdSends + 1
    /\ UNCHANGED <<fwd, fwdDtor, fwdCreated,
                   reasmVars, sendVars, fifoVars, bridgeVars, serVars, hostVars, autoVars>>

\* getForwarder, the locked block: find, construct when absent, return.
FwdGetFind(t) ==
    /\ fwdThread[t].pc = "gf_find"
    /\ fwd' = getForwarder(fwd, fwdThread[t].key)
    /\ fwdCreated' = IF fwd' = fwd THEN fwdCreated ELSE Append(fwdCreated, fwdThread[t].key)
    /\ forwardersMutex' = "none"
    /\ fwdThread' = [fwdThread EXCEPT ![t].pc = "send_lock"]
    /\ UNCHANGED <<fwdDtor, fwdSends,
                   reasmVars, sendVars, fifoVars, bridgeVars, serVars, hostVars, autoVars>>

\* RemoteForwarder::send, the lock_guard on queueMutex.
FwdSendLock(t) ==
    /\ fwdThread[t].pc = "send_lock"
    /\ MutexFree(fwd[fwdThread[t].key].queueMutex)
    /\ fwd' = [fwd EXCEPT ![fwdThread[t].key].queueMutex = t]
    /\ fwdThread' = [fwdThread EXCEPT ![t].pc = "send_push"]
    /\ UNCHANGED <<forwardersMutex, fwdDtor, fwdCreated, fwdSends,
                   reasmVars, sendVars, fifoVars, bridgeVars, serVars, hostVars, autoVars>>

\* RemoteForwarder::send, the push and the end of the locked block.
FwdSendPush(t) ==
    /\ fwdThread[t].pc = "send_push"
    /\ fwd' = [fwd EXCEPT ![fwdThread[t].key] =
            [@ EXCEPT !.pendingQueue = QueuePush(@, fwdThread[t].item),
                      !.enqueued = Append(@, fwdThread[t].item),
                      !.queueMutex = "none"]]
    /\ fwdThread' = [fwdThread EXCEPT ![t].pc = "send_notify"]
    /\ UNCHANGED <<forwardersMutex, fwdDtor, fwdCreated, fwdSends,
                   reasmVars, sendVars, fifoVars, bridgeVars, serVars, hostVars, autoVars>>

\* RemoteForwarder::send, cv.notify_one() and the return.
FwdSendNotify(t) ==
    /\ fwdThread[t].pc = "send_notify"
    /\ fwd' = [fwd EXCEPT ![fwdThread[t].key] = notify_one(@)]
    /\ fwdThread' = [fwdThread EXCEPT ![t] = [pc |-> "idle", key |-> <<>>, item |-> 0]]
    /\ UNCHANGED <<forwardersMutex, fwdDtor, fwdCreated, fwdSends,
                   reasmVars, sendVars, fifoVars, bridgeVars, serVars, hostVars, autoVars>>

\* RemoteForwarder::run, the unique_lock on queueMutex (at the top of the
\* loop, and when cv.wait returns).
FwdWorkerLock(key) ==
    /\ fwd[key].pc = "w_lock"
    /\ MutexFree(fwd[key].queueMutex)
    /\ fwd' = [fwd EXCEPT ![key] = [@ EXCEPT !.queueMutex = "worker", !.pc = "w_check"]]
    /\ UNCHANGED <<forwardersMutex, fwdThread, fwdDtor, fwdCreated, fwdSends,
                   reasmVars, sendVars, fifoVars, bridgeVars, serVars, hostVars, autoVars>>

\* The locked block of run with if (!running) return; in place of
\* if (!running && pendingQueue.empty()) return;
FwdWorkerCheck_stopAtOnce(key) ==
    /\ fwd[key].pc = "w_check"
    /\ LET f == fwd[key]
           taken == WorkerDequeue(f.pendingQueue)
       IN
       fwd' = [fwd EXCEPT ![key] =
            IF ~(f.pendingQueue # <<>> \/ ~f.running)
            THEN [f EXCEPT !.pc = "cv_wait", !.queueMutex = "none"]
            ELSE IF ~f.running
            THEN [f EXCEPT !.pc = "exited", !.queueMutex = "none"]
            ELSE UnlockAfterPop([f EXCEPT !.pc = "post", !.msg = taken.msg,
                                          !.pendingQueue = taken.rest])]
    /\ UNCHANGED <<forwardersMutex, fwdThread, fwdDtor, fwdCreated, fwdSends,
                   reasmVars, sendVars, fifoVars, bridgeVars, serVars, hostVars, autoVars>>

\* RemoteForwarder::run, under the lock: cv.wait tests its predicate and
\* blocks, releasing the mutex, when it is false; otherwise the worker
\* returns when stopped with an empty queue, or pops the front message and
\* leaves the locked block.
FwdWorkerCheck(key) ==
    /\ fwd[key].pc = "w_check"
    /\ LET f == fwd[key]
           taken == WorkerDequeue(f.pendingQueue)
       IN
       fwd' = [fwd EXCEPT ![key] =
            IF ~(f.pendingQueue # <<>> \/ ~f.running)
            THEN [f EXCEPT !.pc = "cv_wait", !.queueMutex = "none"]
            ELSE IF ~f.running /\ f.pendingQueue = <<>>
            THEN [f EXCEPT !.pc = "exited", !.queueMutex = "none"]
            ELSE UnlockAfterPop([f EXCEPT !.pc = "post", !.msg = taken.msg,
                                          !.pendingQueue = taken.rest])]
    /\ UNCHANGED <<forwardersMutex, fwdThread, fwdDtor, fwdCreated, fwdSends,
                   reasmVars, sendVars, fifoVars, bridgeVars, serVars, hostVars, autoVars>>

\* cv.wait may return without a notify (a spurious wake-up); the worker locks
\* the mutex and tests the predicate again.
FwdWorkerSpurious(key) ==
    /\ fwd[key].pc = "cv_wait"
    /\ fwd' = [fwd EXCEPT ![key].pc = "w_lock"]
    /\ UNCHANGED <<forwardersMutex, fwdThread, fwdDtor, fwdCreated, fwdSends,
                   reasmVars, sendVars, fifoVars, bridgeVars, serVars, hostVars, autoVars>>

\* RemoteForwarder::run, client.Post returns (or throws) and the loop goes
\* round: every outcome but 200 is logged.
FwdWorkerPost(key, outcome) ==
    /\ fwd[key].pc = "post"
    /\ fwd' = [fwd EXCEPT ![key] =
            [@ EXCEPT !.pc = "w_lock", !.msg = 0,
                      !.pendingQueue = AfterPost(@, fwd[key].msg, outcome),
                      !.attempts = Append(@, [item |-> fwd[key].msg,
                                              failed |-> outcome # "200"])]]
    /\ UNCHANGED <<forwardersMutex, fwdThread, fwdDtor, fwdCreated, fwdSends,
                   reasmVars, sendVars, fifoVars, bridgeVars, serVars, hostVars, autoVars>>

\* ~RouteManager destroys the forwarders map, one RemoteForwarder after the
\* other, when no thread is in forwardMessage.
FwdDestroy ==
    /\ fwdDtor.pc = "idle"
    /\ \A t \in FwdThreads : fwdThread[t].pc = "idle"
    /\ fwdDtor' = IF fwd = EmptyMap THEN [fwdDtor EXCEPT !.pc = "done", !.todo = <<>>]
                  ELSE [fwdDtor EXCEPT !.pc = "d_lock", !.todo = SortedKeys(DOMAIN fwd)]
    /\ UNCHANGED <<forwardersMutex, fwd, fwdThread, fwdCreated, fwdSends,
                   reasmVars, sendVars, fifoVars, bridgeVars, serVars, hostVars, autoVars>>

\* ~RemoteForwarder, the lock_guard on queueMutex.
FwdDtorLock ==
    /\ fwdDtor.pc = "d_lock"
    /\ MutexFree(fwd[Head(fwdDtor.todo)].queueMutex)
    /\ fwd' = [fwd EXCEPT ![Head(fwdDtor.todo)].queueMutex = "main"]
    /\ fwdDtor' = [fwdDtor EXCEPT !.pc = "d_set"]
    /\ UNCHANGED <<forwardersMutex, fwdThread, fwdCreated, fwdSends,
                   reasmVars, sendVars, fifoVars, bridgeVars, serVars, hostVars, autoVars>>

\* ~RemoteForwarder, running = false and the end of the locked block.  seen
\* is history: where the worker was and whether messages were queued.
FwdDtorSet ==
    /\ fwdDtor.pc = "d_set"
    /\ fwd' = [fwd EXCEPT ![Head(fwdDtor.todo)] =
            [@ EXCEPT !.running = FALSE, !.queueMutex = "none"]]
    /\ fwdDtor' = [fwdDtor EXCEPT !.pc = "d_notify",
                                  !.seen = @ \cup {[pc |-> fwd[Head(fwdDtor.todo)].pc,
                                                    queued |-> fwd[Head(fwdDtor.todo)].pendingQueue # <<>>]}]
    /\ UNCHANGED <<forwardersMutex, fwdThread, fwdCreated, fwdSends,
                   reasmVars, sendVars, fifoVars, bridgeVars, serVars, hostVars, autoVars>>

\* ~RemoteForwarder, cv.notify_one().
FwdDtorNotify ==
    /\ fwdDtor.pc = "d_notify"
    /\ fwd' = [fwd EXCEPT ![Head(fwdDtor.todo)] = notify_one(@)]
    /\ fwdDtor' = [fwdDtor EXCEPT !.pc = "d_join"]
    /\ UNCHANGED <<forwardersMutex, fwdThread, fwdCreated, fwdSends,
                   reasmVars, sendVars, fifoVars, bridgeVars, serVars, hostVars, autoVars>>

\* ~RemoteForwarder, workerThread.join() returns when the worker has left
\* run; the next forwarder of the map follows.
FwdDtorJoin ==
    /\ fwdDtor.pc = "d_join"
    /\ fwd[Head(fwdDtor.todo)].pc = "exited"
    /\ fwdDtor' = IF Tail(fwdDtor.todo) = <<>> THEN [fwdDtor EXCEPT !.pc = "done", !.todo = <<>>]
                  ELSE [fwdDtor EXCEPT !.pc = "d_lock", !.todo = Tail(fwdDtor.todo)]
    /\ UNCHANGED <<forwardersMutex, fwd, fwdThread, fwdCreated, fwdSends,
                   reasmVars, sendVars, fifoVars, bridgeVars, serVars, hostVars, autoVars>>

\* ------------------------------------------------------------------ auto-open under threads

\* The HTTP threads whose POST /routes handlers run ensureLocalPortOpen.
AutoThreads == {"http1", "http2"}

\* ensureLocalPortOpen(portId, portName), its first critical section: with a
\* port registered under portId it returns; otherwise portsMutex is released
\* and the port is constructed.
EnsureCheck(t, portId, portName) ==
    /\ autoOpen[t].pc = "idle"
    /\ MutexFree(portsMutex)
    /\ autoOpen' = [autoOpen EXCEPT ![t] =
            IF portId \in DOMAIN ports THEN @
            ELSE [pc |-> "open", portId |-> portId, portName |-> portName]]
    /\ UNCHANGED <<bridgeVars, hostVars, reasmVars, sendVars, fifoVars, serVars, fwdVars>>

\* ensureLocalPortOpen after the check: open(), and when it succeeded the
\* second critical section, ports[portId] = std::move(port); it returns.
EnsureStore(t) ==
    /\ autoOpen[t].pc = "open"
    /\ LET portId == autoOpen[t].portId
           portName == autoOpen[t].portName
           success == MidiPort_open(devices, portName)
       IN /\ success => MutexFree(portsMutex)
          /\ ports' = IF success
                      THEN MapPut(ports, portId,
                                  NewMidiPort(portId, portName,
                                              StartsWith(portId, InputPrefix)))
                      ELSE ports
    /\ autoOpen' = [autoOpen EXCEPT ![t] =
                       [pc |-> "idle", portId |-> <<>>, portName |-> <<>>]]
    /\ UNCHANGED <<portsMutex, virtualPorts, routes, routesFile, forwarders, bridgeThread,
                   transmitted, dispatched, bridgeArrived, hostVars, reasmVars, sendVars,
                   fifoVars, serVars, fwdVars>>

\* ------------------------------------------------------------------ specifications

NoSend == [port |-> "", data |-> <<>>, output |-> FALSE, transmitted |-> <<>>]
NoInject == [port |-> "", data |-> <<>>, input |-> FALSE, afterClose |-> FALSE,
             queued |-> FALSE, callbacks |-> <<>>]

Init ==
    /\ physIn = NewPort
    /\ virtIn = NewPort
    /\ physCalls = <<>>
    /\ virtCalls = <<>>
    /\ fragLog = <<>>
    /\ sendPorts = [p \in SendPortIds \cup InputPortIds |->
                      [isInputPort |-> SendIsInput(p), input |-> FALSE, output |-> FALSE,
                       messageCallback |-> SendIsInput(p), closed |-> FALSE]]
    /\ lastSend = NoSend
    /\ lastInject = NoInject
    /\ fifoPort = [ isInputPort |-> TRUE, sysexBuffering |-> FALSE, sysexBuffer |-> <<>>,
                    messageQueue |-> <<>>, messageCallback |-> FALSE, queueMutex |-> "none",
                    callbackMutex |-> "none" ]
    /\ fifoThread = [t \in FifoThreads |-> FifoIdle]
    /\ fifoEmitted = <<>>
    /\ fifoTaken = <<>>
    /\ fifoInjected = <<>>
    /\ fifoReturned = 0
    /\ fifoDelivered = <<>>
    /\ fifoCalls = <<>>
    /\ portsMutex = "none"
    /\ ports = EmptyMap
    /\ virtualPorts = EmptyMap
    /\ routes = EmptyMap
    /\ routesFile = [exists |-> FALSE, content |-> <<>>, writable |-> TRUE]
    /\ forwarders = EmptyMap
    /\ bridgeThread = [t \in BridgeThreads |-> BridgeIdle]
    /\ transmitted = <<>>
    /\ dispatched = [id \in {R1, R2} |-> 0]
    /\ bridgeArrived = 0
    /\ serRoutes = EmptyMap
    /\ serFile = [exists |-> FALSE, content |-> <<>>, writable |-> TRUE]
    /\ serLoaded = EmptyMap
    /\ serStep = "build"
    /\ devices = {}
    /\ clock = 0
    /\ randCalls = 0
    /\ restarts = 0
    /\ routeOps = 0
    /\ response = NoResponse
    /\ request = NoRequest
    /\ forwardersMutex = "none"
    /\ fwd = EmptyMap
    /\ fwdThread = [t \in FwdThreads |-> [pc |-> "idle", key |-> <<>>, item |-> 0]]
    /\ fwdDtor = [pc |-> "idle", todo |-> <<>>, seen |-> {}]
    /\ fwdCreated = <<>>
    /\ fwdSends = 0
    /\ autoOpen = [t \in AutoThreads |-> [pc |-> "idle", portId |-> <<>>, portName |-> <<>>]]

SpecReasm ==
    Init /\ [][
        \/ ReasmSetMessageCallback
        \/ ReasmOpen
        \/ \E raw \in Fragments : ReasmDeliver(raw)
    ]_vars

SpecSend ==
    Init /\ [][
        \/ \E p \in SendPortIds : SendOpen(p)
        \/ \E p \in SendPortIds : SendClose(p)
        \/ \E p \in SendPortIds, data \in SendMessages : SendMessage(p, data)
    ]_vars

\* SpecPortLife: open, close, sendMessage and injectMessage on ports of both
\* classes and both directions.
SpecPortLife ==
    Init /\ [][
        \/ \E p \in SendPortIds \cup InputPortIds : SendOpen(p)
        \/ \E p \in SendPortIds \cup InputPortIds : SendClose(p)
        \/ \E p \in SendPortIds \cup InputPortIds, data \in PortMessages : SendMessage(p, data)
        \/ \E p \in SendPortIds \cup InputPortIds, data \in {<<>>, BridgeMessage(1)} :
             SendInject(p, data)
    ]_vars

SpecFifo ==
    Init /\ [][
        \/ FifoSetMessageCallback
        \/ \E t \in FifoThreads, data \in FifoMessages : FifoInjectLock(t, data)
        \/ \E t \in FifoThreads : FifoInjectPush(t)
        \/ \E t \in FifoThreads : FifoInjectCallback(t)
        \/ \E t \in FifoThreads, raw \in FifoMessages : FifoHandleLock(t, raw)
        \/ \E t \in FifoThreads : FifoHandleReassemble(t)
        \/ \E t \in FifoThreads : FifoHandleCallback(t)
        \/ \E t \in FifoThreads : FifoInvoke(t)
        \/ \E t \in FifoThreads : FifoGetLock(t)
        \/ \E t \in FifoThreads : FifoGetPop(t)
        \/ \E t \in FifoThreads : FifoGetReturn(t)
    ]_vars

SpecBridge ==
    Init /\ [][
        \/ \E t \in HttpThreads, req \in VirtualRequests :
             req.portId \notin DOMAIN virtualPorts /\ CreateVirtualPort(t, req)
        \/ \E t \in HttpThreads, req \in RouteRequests :
             req.id \notin DOMAIN routes /\ AddRoute(t, req)
        \/ \E t \in HttpThreads, routeId \in DOMAIN routes :
             routes[routeId].enabled /\ SetRouteEnabled(t, routeId, FALSE)
        \/ \E t \in HttpThreads :
             Vi \in DOMAIN virtualPorts /\ InjectMessage(t, Vi, BridgeMessage(bridgeArrived + 1))
        \/ \E t \in HttpThreads : InjectReturn(t)
        \/ \E t \in DriverThreads : DriverDeliver(t, Vi, BridgeMessage(bridgeArrived + 1))
        \/ \E t \in BridgeThreads : ForwardCollect(t)
        \/ \E t \in BridgeThreads : ForwardDispatch(t)
        \/ \E t \in BridgeThreads : ForwarderSend(t)
        \/ \E t \in BridgeThreads : ForwardToLocalDestination(t)
        \/ \E t \in BridgeThreads : RelockPortsMutex(t)
        \/ \E t \in BridgeThreads : ForwardCount(t)
        \/ \E t \in BridgeThreads : Unwind(t)
        \/ \E key \in DOMAIN forwarders : WorkerTake(key)
        \/ \E key \in DOMAIN forwarders : WorkerPost(key)
    ]_vars

SpecRoundTrip ==
    Init /\ [][
        \/ \E id \in {<<>>, R1, R2}, enabled \in BOOLEAN, name \in SerStrings,
              count \in 0..1, portId \in {<<>>, <<"i">>} :
             SerBuild([SerRoute(id, enabled, name, count) EXCEPT !.source.portId = portId])
        \/ SerSave
        \/ SerLoad
    ]_vars

SpecRoutes ==
    Init /\ [][
        \/ \E t \in HttpThreads, req \in StoreRequests :
             routeOps < MaxRouteOps /\ AddRoute(t, req)
        \/ \E t \in HttpThreads, routeId \in DOMAIN routes \cup {R1}, enabled \in BOOLEAN :
             routeOps < MaxRouteOps /\ SetRouteEnabled(t, routeId, enabled)
        \/ \E t \in HttpThreads, routeId \in DOMAIN routes \cup {R1} :
             routeOps < MaxRouteOps /\ RemoveRoute(t, routeId)
        \/ \E elapsed \in 0..1 : Restart(elapsed)
        \/ \E name \in DeviceNames : AttachDevice(name)
    ]_vars

SpecPorts ==
    Init /\ [][
        \/ \E name \in DeviceNames : AttachDevice(name)
        \/ \E t \in HttpThreads, name \in DeviceNames, type \in {"input", "output"} :
             OpenPort(t, Input0, name, type)
        \/ \E t \in HttpThreads : ClosePort(t, Input0)
        \/ \E t \in HttpThreads, req \in PortRequests : CreateVirtualPort(t, req)
        \/ \E t \in HttpThreads : DeleteVirtualPort(t, Vi)
        \/ \E t \in HttpThreads, message \in PortMessages :
             request.n < MaxRequests /\ SendPort(t, Input0, message)
        \/ \E t \in HttpThreads, message \in PortMessages :
             request.n < MaxRequests /\ SendVirtual(t, Vi, message)
        \/ \E t \in HttpThreads, message \in {<<>>, BridgeMessage(bridgeArrived + 1)} :
             request.n < MaxRequests /\ InjectMessage(t, Vi, message)
        \/ \E t \in HttpThreads : ForwardCollect(t)
        \/ \E t \in HttpThreads : InjectReturn(t)
    ]_vars

\* SpecCounters: one virtual input, the local route r1 added any number of
\* times, and deliveries of the driver.
SpecCounters ==
    Init /\ [][
        \/ \E t \in HttpThreads, req \in VirtualRequests :
             req.portId \notin DOMAIN virtualPorts /\ CreateVirtualPort(t, req)
        \/ \E t \in HttpThreads, req \in {r \in RouteRequests : r.id = R1} :
             routeOps < MaxRouteOps /\ AddRoute(t, req)
        \/ \E t \in HttpThreads, enabled \in BOOLEAN :
             routeOps < MaxRouteOps /\ SetRouteEnabled(t, R1, enabled)
        \/ \E t \in DriverThreads : DriverDeliver(t, Vi, BridgeMessage(bridgeArrived + 1))
        \/ \E t \in DriverThreads : ForwardCollect(t)
        \/ \E t \in DriverThreads : ForwardDispatch(t)
        \/ \E t \in DriverThreads : ForwardToLocalDestination(t)
        \/ \E t \in DriverThreads : ForwardCount(t)
    ]_vars

\* SpecTable: the local route under the ids r1 and r2, added, switched and
\* removed while the routes file is writable or not, and one delivery of the
\* driver on the virtual input vi.
SpecTable ==
    Init /\ [][
        \/ \E t \in HttpThreads, req \in VirtualRequests :
             /\ req.portId = Vi
             /\ req.portId \notin DOMAIN virtualPorts
             /\ CreateVirtualPort(t, req)
        \/ \E t \in HttpThreads, req \in RouteRequests, routeId \in {R1, R2} :
             /\ routeOps < MaxTableOps
             /\ req.id = R1
             /\ AddRoute(t, [req EXCEPT !.id = routeId])
        \/ \E t \in HttpThreads, routeId \in {R1, R2}, enabled \in BOOLEAN :
             routeOps < MaxTableOps /\ SetRouteEnabled(t, routeId, enabled)
        \/ \E t \in HttpThreads, routeId \in {R1, R2} :
             routeOps < MaxTableOps /\ RemoveRoute(t, routeId)
        \/ \E writable \in BOOLEAN : SetWritable(writable)
        \/ \E t \in DriverThreads :
             bridgeArrived = 0 /\ DriverDeliver(t, Vi, BridgeMessage(1))
        \/ \E t \in DriverThreads : ForwardCollect(t)
        \/ \E t \in DriverThreads : ForwardDispatch(t)
        \/ \E t \in DriverThreads : ForwardToLocalDestination(t)
        \/ \E t \in DriverThreads : ForwardCount(t)
    ]_vars

\* SpecAutoOpen: devices a and b, explicit opens of input-0 on one HTTP
\* thread and auto-opens of input-0 on two others.
SpecAutoOpen ==
    Init /\ [][
        \/ \E name \in DeviceNames : AttachDevice(name)
        \/ \E t \in HttpThreads, name \in DeviceNames, type \in {"input", "output"} :
             OpenPort(t, Input0, name, type)
        \/ \E t \in HttpThreads : ClosePort(t, Input0)
        \/ \E t \in AutoThreads, portName \in DeviceNames : EnsureCheck(t, Input0, portName)
        \/ \E t \in AutoThreads : EnsureStore(t)
    ]_vars

\* SpecLocal: device a, physical outputs under the ids output-0 and
\* virtual:vo, virtual ports vi (input), vo and output-0 (outputs), the local
\* routes r1: virtual:vi -> virtual:vo and r2: virtual:vi -> output-0, and
\* messages delivered by the driver or injected on vi.
SpecLocal ==
    Init /\ [][
        \/ \E name \in DeviceNames : name = <<"a">> /\ AttachDevice(name)
        \/ \E t \in HttpThreads, portId \in {Output0, VirtualPrefix \o Vo} :
             portId \notin DOMAIN ports /\ OpenPort(t, portId, <<"a">>, "output")
        \/ \E t \in HttpThreads, req \in VirtualRequests \cup
                                         {[portId |-> Output0, type |-> "output"]} :
             req.portId \notin DOMAIN virtualPorts /\ CreateVirtualPort(t, req)
        \/ \E t \in HttpThreads, req \in RouteRequests, portId \in {Output0} :
             /\ req.id \notin DOMAIN routes
             /\ AddRoute(t, IF req.id = R1 THEN req
                            ELSE [req EXCEPT !.destination.serverUrl = LocalUrl,
                                             !.destination.portId = portId])
        \/ \E t \in HttpThreads :
             Vi \in DOMAIN virtualPorts /\ InjectMessage(t, Vi, BridgeMessage(bridgeArrived + 1))
        \/ \E t \in HttpThreads : InjectReturn(t)
        \/ \E t \in DriverThreads : DriverDeliver(t, Vi, BridgeMessage(bridgeArrived + 1))
        \/ \E t \in BridgeThreads : ForwardCollect(t)
        \/ \E t \in BridgeThreads : ForwardDispatch(t)
        \/ \E t \in BridgeThreads : ForwardToLocalDestination(t)
        \/ \E t \in BridgeThreads : RelockPortsMutex(t)
        \/ \E t \in BridgeThreads : ForwardCount(t)
        \/ \E t \in BridgeThreads : Unwind(t)
    ]_vars

\* SpecRace: the virtual input vi and the remote route r2, added and removed
\* while the driver's thread and an inject request forward messages of vi.
SpecRace ==
    Init /\ [][
        \/ \E t \in HttpThreads, req \in VirtualRequests :
             /\ req.portId = Vi
             /\ req.portId \notin DOMAIN virtualPorts
             /\ CreateVirtualPort(t, req)
        \/ \E t \in HttpThreads, req \in RouteRequests :
             /\ routeOps < MaxRouteOps
             /\ req.id = R2
             /\ req.id \notin DOMAIN routes
             /\ AddRoute(t, req)
        \/ \E t \in HttpThreads : routeOps < MaxRouteOps /\ RemoveRoute(t, R2)
        \/ \E t \in HttpThreads :
             Vi \in DOMAIN virtualPorts /\ InjectMessage(t, Vi, BridgeMessage(bridgeArrived + 1))
        \/ \E t \in HttpThreads : InjectReturn(t)
        \/ \E t \in DriverThreads : DriverDeliver(t, Vi, BridgeMessage(bridgeArrived + 1))
        \/ \E t \in BridgeThreads : ForwardCollect(t)
        \/ \E t \in BridgeThreads : ForwardDispatch(t)
        \/ \E t \in BridgeThreads : ForwarderSend(t)
        \/ \E t \in BridgeThreads : ForwardCount(t)
    ]_vars

\* SpecHotPath: the virtual input vi, routes to remote servers and
\* deliveries of the driver.
SpecHotPath ==
    Init /\ [][
        \/ \E t \in HttpThreads, req \in {r \in VirtualRequests : r.portId = Vi} :
             req.portId \notin DOMAIN virtualPorts /\ CreateVirtualPort(t, req)
        \/ \E t \in HttpThreads, req \in HotPathRequests :
             req.id \notin DOMAIN routes /\ AddRoute(t, req)
        \/ \E t \in DriverThreads : DriverDeliver(t, Vi, BridgeMessage(bridgeArrived + 1))
        \/ \E t \in DriverThreads : ForwardCollect(t)
        \/ \E t \in DriverThreads : ForwardDispatch(t)
        \/ \E t \in DriverThreads : ForwarderSend(t)
        \/ \E t \in DriverThreads : ForwardCount(t)
        \/ \E t \in DriverThreads : Unwind(t)
        \/ \E key \in DOMAIN forwarders : WorkerTake(key)
        \/ \E key \in DOMAIN forwarders : WorkerPost(key)
    ]_vars

\* SpecForwarder: two threads forward to two remote servers, the workers
\* POST, and the RouteManager is destroyed.
SpecForwarder ==
    Init /\ [][
        \/ \E t \in FwdThreads, key \in FwdKeys : FwdGetLock(t, key)
        \/ \E t \in FwdThreads : FwdGetFind(t)
        \/ \E t \in FwdThreads : FwdSendLock(t)
        \/ \E t \in FwdThreads : FwdSendPush(t)
        \/ \E t \in FwdThreads : FwdSendNotify(t)
        \/ \E key \in DOMAIN fwd : FwdWorkerLock(key)
        \/ \E key \in DOMAIN fwd : FwdWorkerCheck(key)
        \/ \E key \in DOMAIN fwd : FwdWorkerSpurious(key)
        \/ \E key \in DOMAIN fwd, outcome \in PostOutcomes : FwdWorkerPost(key, outcome)
        \/ FwdDestroy
        \/ FwdDtorLock
        \/ FwdDtorSet
        \/ FwdDtorNotify
        \/ FwdDtorJoin
    ]_vars

\* SpecForwarderLive: every thread that can take a step takes one in the end
\* (each POST returns); a thread that waits for a mutex which is free again
\* and again acquires it in the end; a spurious wake-up need never happen.
SpecForwarderLive ==
    /\ SpecForwarder
    /\ \A key \in FwdKeys :
         /\ SF_vars(key \in DOMAIN fwd /\ FwdWorkerLock(key))
         /\ WF_vars(key \in DOMAIN fwd /\ FwdWorkerCheck(key))
         /\ WF_vars(key \in DOMAIN fwd /\ \E outcome \in PostOutcomes : FwdWorkerPost(key, outcome))
    /\ SF_vars(FwdDtorLock)
    /\ WF_vars(FwdDtorSet)
    /\ WF_vars(FwdDtorNotify)
    /\ WF_vars(FwdDtorJoin)

\* ------------------------------------------------------------------ claims: reassembler

\* After the first i fragments of frags a SysEx is being buffered: some
\* fragment j <= i started one and no fragment from j to i ended with 0xF7.
BufferingAfter(frags, i) ==
    \E j \in 1..i : /\ frags[j][1] = F0
                    /\ \A k \in j..i : Last(frags[k]) # F7

\* The last fragment up to i that starts with 0xF0.
SysExStart(frags, i) ==
    CHOOSE j \in 1..i : /\ frags[j][1] = F0
                        /\ \A k \in (j + 1)..i : frags[k][1] # F0

RECURSIVE ConcatRange(_, _, _)
ConcatRange(frags, j, i) ==
    IF j > i THEN <<>> ELSE frags[j] \o ConcatRange(frags, j + 1, i)

\* Fragment i belongs to a SysEx: it starts one or arrives while one is buffered.
InSysEx(frags, i) == frags[i][1] = F0 \/ BufferingAfter(frags, i - 1)

\* Fragment i completes a whole message.
Completes(frags, i) == InSysEx(frags, i) => Last(frags[i]) = F7

\* The whole message completed by fragment i.
WholeAt(frags, i) ==
    IF InSysEx(frags, i) THEN ConcatRange(frags, SysExStart(frags, i), i) ELSE frags[i]

RECURSIVE WholeUpTo(_, _)
WholeUpTo(frags, i) ==
    IF i = 0 THEN <<>>
    ELSE IF Completes(frags, i) THEN Append(WholeUpTo(frags, i - 1), WholeAt(frags, i))
    ELSE WholeUpTo(frags, i - 1)

\* The whole MIDI messages present in a fragment stream, in order.
WholeMessages(frags) == WholeUpTo(frags, Len(frags))

\* C1: the messages a physical port has emitted (pushed on its FIFO and passed
\* to its routing callback) are the whole messages of the fragment stream in
\* arrival order: a SysEx split over k >= 2 fragments is emitted once as the
\* concatenation of its fragments, none of its fragments is emitted on its
\* own, and a short message that arrives while nothing is buffered is emitted
\* unchanged.
C1_PortEmitsWholeMessages ==
    /\ physIn.messageQueue = WholeMessages(fragLog)
    /\ physIn.messageCallback =>
         physCalls = [i \in 1..Len(physIn.messageQueue) |-> <<"in", physIn.messageQueue[i]>>]

\* A SysEx split over three fragments, between two short messages, has been
\* reassembled.
C1_Witness ==
    /\ fragLog = << <<144, 60, 127>>, <<240, 126, 1>>, <<2, 3>>, <<4, 247>> >>
    /\ physIn.messageQueue = << <<144, 60, 127>>, <<240, 126, 1, 2, 3, 4, 247>> >>
    /\ physCalls = << <<"in", <<144, 60, 127>>>>, <<"in", <<240, 126, 1, 2, 3, 4, 247>>>> >>

\* C2: a VirtualMidiPort fed the same fragments as a MidiPort has emitted the
\* same messages, to its FIFO and to its routing callback.
C2_VirtualSameAsPort ==
    /\ virtIn.messageQueue = physIn.messageQueue
    /\ virtCalls = physCalls

\* ------------------------------------------------------------------ claims: sendMessage

\* The bytes of a message between its first and its last byte.
Interior(data) == [i \in 1..(Len(data) - 2) |-> data[i + 1]]

\* C7: on an open output port a message that starts with 0xF0 is handed to
\* the SysEx transmit primitive iff it ends with 0xF7 and has length >= 3,
\* and what is handed over is its interior bytes.
C7_SysExSentIffFramed ==
    (lastSend.port # "" /\ lastSend.output /\ lastSend.data # <<>> /\ lastSend.data[1] = F0)
    => /\ (lastSend.transmitted # <<>>)
             <=> (Last(lastSend.data) = F7 /\ Len(lastSend.data) >= 3)
       /\ lastSend.transmitted # <<>>
             => lastSend.transmitted =
                  << [primitive |-> "createSysExMessage", bytes |-> Interior(lastSend.data)] >>

\* A framed SysEx was sent, on a port of either class.
C7_Witness ==
    /\ lastSend.port = "virtual:out" /\ lastSend.output
    /\ lastSend.data = <<240, 144, 144, 247>>
    /\ lastSend.transmitted = << [primitive |-> "createSysExMessage", bytes |-> <<144, 144>>] >>

\* C8: on an open output port a message that does not start with 0xF0 is
\* handed to the short-message transmit primitive iff its length is 1, 2 or 3.
C8_ShortSentIffLen1to3 ==
    (lastSend.port # "" /\ lastSend.output
        /\ (lastSend.data = <<>> \/ lastSend.data[1] # F0))
    => /\ (lastSend.transmitted # <<>>) <=> (Len(lastSend.data) \in {1, 2, 3})
       /\ lastSend.transmitted # <<>>
             => lastSend.transmitted = << [primitive |-> "MidiMessage", bytes |-> lastSend.data] >>

\* A four-byte message was rejected by an open output port.
C8_Witness ==
    /\ lastSend.port = "output-0" /\ lastSend.output
    /\ lastSend.data = <<144, 144, 144, 144>>
    /\ lastSend.transmitted = <<>>

\* ------------------------------------------------------------------ claims: inbound FIFO

RECURSIVE FlattenTaken(_)
FlattenTaken(taken) ==
    IF taken = <<>> THEN <<>> ELSE Head(taken).messages \o FlattenTaken(Tail(taken))

\* What a getMessages call that is still draining has moved to its result.
FifoDraining ==
    IF \E t \in FifoThreads : fifoThread[t].pc = "get_locked"
    THEN fifoThread[CHOOSE t \in FifoThreads : fifoThread[t].pc = "get_locked"].result
    ELSE <<>>

\* C9: getMessages returns the whole FIFO as it was when the call took the
\* lock; the lists returned so far, in return order, followed by what is
\* being drained and what is still queued, are exactly the messages emitted,
\* in emission order: no message is lost, returned twice or reordered, under
\* every interleaving of deliveries, injects and getMessages calls.
C9_TakeExactlyOnceInOrder ==
    /\ FlattenTaken(fifoTaken) \o FifoDraining \o fifoPort.messageQueue = fifoEmitted
    /\ \A i \in 1..Len(fifoTaken) : fifoTaken[i].messages = fifoTaken[i].queueAtCall

\* Two getMessages calls each returned one of two messages, one injected and
\* one delivered by the driver.
C9_Witness ==
    /\ Len(fifoInjected) = 1 /\ Len(fifoDelivered) = 1
    /\ Len(fifoTaken) = 2
    /\ Len(fifoTaken[1].messages) = 1 /\ Len(fifoTaken[2].messages) = 1
    /\ fifoTaken[1].messages # fifoTaken[2].messages

\* C10: when injectMessage(b) is the only arrival and has returned before the
\* first getMessages call, that call returns <<b>>, and the routing callback
\* was invoked at most once, with the port's id and b, and exactly once when
\* it was set before the inject.
C10_InjectThenTake ==
    \A b \in FifoMessages, c \in BOOLEAN :
        ( /\ fifoInjected = << [data |-> b, callbackSet |-> c] >>
          /\ fifoDelivered = <<>>
          /\ Len(fifoTaken) >= 1
          /\ fifoTaken[1].returnedAtCall = 1 )
        => /\ fifoTaken[1].messages = <<b>>
           /\ fifoCalls \in { <<>>, << <<FifoPortId, b>> >> }
           /\ c => fifoCalls = << <<FifoPortId, b>> >>

\* An inject with the callback set, then a getMessages call that returned it.
C10_Witness ==
    /\ fifoInjected = << [data |-> <<144, 60, 127>>, callbackSet |-> TRUE] >>
    /\ fifoDelivered = <<>>
    /\ Len(fifoTaken) = 1
    /\ fifoTaken[1].returnedAtCall = 1
    /\ fifoTaken[1].messages = << <<144, 60, 127>> >>
    /\ fifoCalls = << <<FifoPortId, <<144, 60, 127>>>> >>

\* ------------------------------------------------------------------ claims: routing

\* C3: for every remote destination host:port, the messages its worker has
\* posted, then the one it is posting, then the ones still queued, are the
\* messages forwardMessage enqueued for that destination, in the order they
\* were enqueued: the worker posts them in that order, none twice and none
\* skipped.
C3_RemoteOrderPreserved ==
    \A key \in DOMAIN forwarders :
        LET forwarder == forwarders[key] IN
        forwarder.posted
          \o (IF forwarder.pc = "post" THEN <<forwarder.msg>> ELSE <<>>)
          \o forwarder.pendingQueue
        = forwarder.enqueued

\* Two different messages from virtual:vi were enqueued for h:1 and
\* both have been posted.
C3_Witness ==
    \E key \in DOMAIN forwarders :
        /\ Len(forwarders[key].posted) = 2
        /\ forwarders[key].posted[1] # forwarders[key].posted[2]
        /\ forwarders[key].posted = forwarders[key].enqueued
        /\ routes[R2].messagesForwarded = 2

\* C4: while a route is disabled (setRouteEnabled(id, false) has returned) no
\* step dispatches a message through it and no step changes its
\* messagesForwarded, whatever other threads were doing when it was disabled.
C4_DisabledRouteNeverForwards ==
    [][ \A id \in DOMAIN routes :
          ~routes[id].enabled =>
              /\ dispatched'[id] = dispatched[id]
              /\ routes'[id].messagesForwarded = routes[id].messagesForwarded ]_vars

\* The scenario of the local round trip: virtual input vi, open virtual
\* output vo, the enabled local route vi -> vo as the only route, and one
\* message m, injected by thread t, as the only arrival.
RoundTripScenario(t) ==
    /\ DOMAIN routes = {R1}
    /\ routes[R1].enabled
    /\ Vi \in DOMAIN virtualPorts /\ virtualPorts[Vi].isInputPort
    /\ Len(virtualPorts[Vi].messageQueue) = 1
    /\ Len(virtualPorts[Vi].messageQueue[1]) \in 1..3
    /\ Vo \in DOMAIN virtualPorts /\ virtualPorts[Vo].virtualOutput
    /\ bridgeArrived = 1
    /\ bridgeThread[t].pc \notin {"idle", "deadlocked", "terminated"}

\* C5: in the scenario of the local round trip, when the inject request is
\* over (its handler returns, or its thread can go no further) there has been
\* exactly one platform transmit, on virtual:vo with the bytes of m, and the
\* route's messagesForwarded is 1.
C5_LocalRoundTrip ==
    [][ \A t \in HttpThreads :
          (RoundTripScenario(t) /\ bridgeThread'[t].pc \in {"idle", "deadlocked"}) =>
              /\ transmitted' = << [ port |-> VirtualPrefix \o Vo,
                                     primitive |-> "MidiMessage",
                                     bytes |-> virtualPorts[Vi].messageQueue[1] ] >>
              /\ routes'[R1].messagesForwarded = 1 ]_vars

\* C6: a thread that reaches the lock of forwardToLocalDestination through
\* the routing callback does not hold portsMutex itself, and no thread is
\* blocked for good.
C6_NoSelfDeadlock ==
    \A t \in BridgeThreads :
        /\ bridgeThread[t].pc = "fl_lock" => portsMutex # t
        /\ bridgeThread[t].pc # "deadlocked"

\* ------------------------------------------------------------------ claims: routes file

\* A route list in memory with its counters reset.
ResetCounters(routeMap) ==
    [id \in DOMAIN routeMap |-> [routeMap[id] EXCEPT !.messagesForwarded = 0]]

\* C12: serializing a route list and deserializing it yields the same list
\* with the counters reset to 0, whatever characters the strings of the routes
\* contain (a double quote, a backslash, a brace).
C12_RoundTrip ==
    serStep = "loaded" => serLoaded = ResetCounters(serRoutes)

\* C11: after every route operation (addRoute, removeRoute, setRouteEnabled),
\* in any sequence, loadFromDisk of the routes file reconstructs the table in
\* memory: the same ids, enabled flags and endpoints, the counters excepted.
C11_FileMatchesTable ==
    loadFromDisk(routesFile, EmptyMap) = ResetCounters(routes)

\* The endpoints of the routes of a table, and the port ids they name.
RouteEndpoints(routeMap) ==
    UNION { {routeMap[id].source, routeMap[id].destination} : id \in DOMAIN routeMap }

\* A route endpoint of the table names portId as a local physical port with a
\* portName.
NamedByRoute(routeMap, portId) ==
    \E e \in RouteEndpoints(routeMap) :
        /\ e.serverUrl = <<>> \/ e.serverUrl = LocalUrl
        /\ ~StartsWith(e.portId, VirtualPrefix)
        /\ e.portId = portId
        /\ e.portName # <<>>

\* The same, and a device whose name contains the portName is attached.
NamedAndAttached(routeMap, attached, portId) ==
    \E e \in RouteEndpoints(routeMap) :
        /\ e.serverUrl = <<>> \/ e.serverUrl = LocalUrl
        /\ ~StartsWith(e.portId, VirtualPrefix)
        /\ e.portId = portId
        /\ e.portName # <<>>
        /\ \E name \in attached : Contains(name, e.portName)

\* The port ids a startup can be asked about.
StartupPortIds(routeMap, portMap) ==
    {e.portId : e \in RouteEndpoints(routeMap)} \cup DOMAIN portMap

C16_GeneratedIdIsFresh ==
    [][randCalls' > randCalls =>
         /\ generateRouteId(clock, randCalls) \notin DOMAIN routes
         /\ Cardinality(DOMAIN routes') = Cardinality(DOMAIN routes) + 1]_vars

\* ------------------------------------------------------------------ claims: port handlers

\* The port registered under an id before and after a step is the same port:
\* the same name and the same direction.
SamePort(before, after) ==
    before.portName = after.portName /\ before.isInputPort = after.isInputPort
SameVirtualPort(before, after) == before.isInputPort = after.isInputPort

\* C14: opening a physical port or creating a virtual port under an id that is
\* already registered fails and leaves the registered port in place: no step
\* replaces the port of an id that stays registered, and no step that answers
\* with success true has put another port under a registered id.
C14_RegisteredPortKept ==
    [][/\ \A id \in DOMAIN ports \cap DOMAIN ports' : SamePort(ports[id], ports'[id])
       /\ \A id \in DOMAIN virtualPorts \cap DOMAIN virtualPorts' :
             SameVirtualPort(virtualPorts[id], virtualPorts'[id])]_vars

\* A message array that is not a MIDI message: empty, a SysEx that does not
\* end with 0xF7 (a lone 0xF0 is one), or more than 3 bytes that are not a
\* SysEx.
Malformed(message) ==
    \/ message = <<>>
    \/ message # <<>> /\ message[1] = F0 /\ Last(message) # F7
    \/ message # <<>> /\ message[1] # F0 /\ Len(message) > 3

\* C18: a send request with a malformed message on an existing port is
\* answered with 400 and makes no transmit call, and a send request is
\* answered with success true only when it made a transmit call.
C18_MalformedSendRejected ==
    [][request'.n # request.n /\ request'.handler \in {"send", "vsend"} /\ request'.found =>
         /\ Malformed(request'.message) =>
               response'.status = 400 /\ request'.calls = <<>>
         /\ response'.body = "success:true" => request'.calls # <<>>]_vars

\* C19: a send request on an input port, physical or virtual, and an inject
\* request on a virtual port that is not an input are answered with 400,
\* transmit nothing, push nothing on a queue and invoke no routing callback.
C19_MisuseRejected ==
    [][/\ request'.n # request.n
       /\ request'.found
       /\ \/ request'.handler \in {"send", "vsend"} /\ request'.isInput
          \/ request'.handler = "inject" /\ ~request'.isInput
       => /\ response'.status = 400
          /\ request'.calls = <<>>
          /\ UNCHANGED <<transmitted, ports, virtualPorts, bridgeThread>>]_vars

\* ------------------------------------------------------------------ claims: counters and hot path

\* C15: for every route id, messagesForwarded never decreases over addRoute,
\* setRouteEnabled and forwardMessage, for as long as a route with that id
\* exists.
C15_CounterNeverDecreases ==
    [][\A id \in DOMAIN routes \cap DOMAIN routes' :
          routes'[id].messagesForwarded >= routes[id].messagesForwarded]_vars

\* C17: forwarding on the hot path never fails observably: whatever the
\* serverUrl of a destination (https://h:1 and http://h:abc included), no
\* exception leaves forwardMessage, which returns normally.
C17_HotPathNeverFails ==
    \A t \in BridgeThreads : bridgeThread[t].pc \notin {"unwind", "terminated"}

\* ------------------------------------------------------------------ claims: closed ports

\* sendMessage on a port whose output pointer is null (never opened, closed,
\* or an input port) hands nothing to the platform and leaves the port as it
\* was.
C20_SendOnClosedPort ==
    (lastSend' # lastSend /\ ~lastSend'.output)
    => (lastSend'.transmitted = <<>> /\ sendPorts' = sendPorts)

\* C20: sendMessage on a port that is closed (never opened, open failed, or
\* closed) or that is an input port reaches no transmit primitive and changes
\* no port state, for every message; and after close() no routing callback is
\* invoked for that port.
C20_ClosedPortSilent ==
    [][ /\ C20_SendOnClosedPort
        /\ (lastInject' # lastInject /\ lastInject'.afterClose)
           => lastInject'.callbacks = <<>> ]_vars

\* ------------------------------------------------------------------ claims: RemoteForwarder

\* C21: the worker never holds queueMutex while it performs a POST, so a send
\* can take the mutex while the worker is in a POST, and the item a send
\* pushes is then the last element of the queue.
C21_SendNeverWaitsOnPost ==
    [][ /\ \A key \in DOMAIN fwd' :
             fwd'[key].pc = "post" => fwd'[key].queueMutex # "worker"
        /\ \A t \in FwdThreads :
             (fwdThread[t].pc = "send_push" /\ fwdThread'[t].pc = "send_notify")
             => Last(fwd'[fwdThread[t].key].pendingQueue) = fwdThread[t].item ]_vars

\* A send completed while the worker was in the POST of the item before.
C21_Witness ==
    \E key \in DOMAIN fwd, t \in FwdThreads :
        /\ fwd[key].pc = "post" /\ fwd[key].msg = 1
        /\ fwdThread[t].pc = "send_notify" /\ fwdThread[t].key = key
        /\ fwd[key].pendingQueue = <<2>>

\* The items the worker of a forwarder has POSTed, in POST order.
Attempted(f) == [n \in 1..Len(f.attempts) |-> f.attempts[n].item]

\* C22: whatever the outcome of a POST the worker goes on: the items POSTed
\* so far, the one in flight and the ones queued are exactly the items
\* enqueued, in order; so every item is POSTed at most once, a failed item is
\* never queued again, and the items behind it are POSTed in order.
C22_FailedPostDropped ==
    \A key \in DOMAIN fwd :
        Attempted(fwd[key]) \o (IF fwd[key].pc = "post" THEN <<fwd[key].msg>> ELSE <<>>)
            \o fwd[key].pendingQueue
        = fwd[key].enqueued

\* The POST of item 1 failed and item 2, queued behind it, was POSTed.
C22_Witness ==
    \E key \in DOMAIN fwd :
        /\ fwd[key].attempts = << [item |-> 1, failed |-> TRUE], [item |-> 2, failed |-> FALSE] >>
        /\ fwd[key].pendingQueue = <<>>

\* C23: once ~RouteManager has started, every forwarder's worker exits and
\* every join returns, whatever the state of the queues and workers.
C23_DestructorTerminates ==
    (fwdDtor.pc # "idle") ~> (fwdDtor.pc = "done")

\* The destructors of two forwarders have returned; one found its worker in
\* a POST, the other found its worker waiting on an empty queue.
C23_Witness ==
    /\ fwdDtor.pc = "done"
    /\ \E queued \in BOOLEAN : [pc |-> "post", queued |-> queued] \in fwdDtor.seen
    /\ [pc |-> "cv_wait", queued |-> FALSE] \in fwdDtor.seen
    /\ \A key \in DOMAIN fwd : fwd[key].pc = "exited"

\* C24: there is at most one RemoteForwarder per key: no key is constructed
\* twice, every thread that left getForwarder enqueues on the forwarder of
\* its key, and a forwarder once in the map stays there with its queue.
C24_OneForwarderPerKey ==
    [][ /\ \A i, j \in 1..Len(fwdCreated') : fwdCreated'[i] = fwdCreated'[j] => i = j
        /\ {fwdCreated'[i] : i \in 1..Len(fwdCreated')} = DOMAIN fwd'
        /\ \A key \in DOMAIN fwd :
             /\ key \in DOMAIN fwd'
             /\ Len(fwd[key].enqueued) <= Len(fwd'[key].enqueued)
             /\ SubSeq(fwd'[key].enqueued, 1, Len(fwd[key].enqueued)) = fwd[key].enqueued
        /\ \A t \in FwdThreads :
             (fwdThread[t].pc = "send_push" /\ fwdThread'[t].pc = "send_notify")
             => Last(fwd'[fwdThread[t].key].enqueued) = fwdThread[t].item ]_vars

\* Two threads made the first use of the same server at the same time, one
\* forwarder was constructed, and both enqueued on it.
C24_Witness ==
    \E key \in FwdKeys :
        /\ fwdCreated = <<key>>
        /\ Len(fwd[key].enqueued) = 2
        /\ \A t \in FwdThreads : fwdThread[t].key = key /\ fwdThread[t].pc = "send_notify"

\* ------------------------------------------------------------------ claims: locks

\* The mutexes a thread holds together while it takes its next step:
\* portsMutex when it owns it (the inject handler keeps it over injectMessage
\* and the routing callback), and the mutex which the step at its position
\* locks: routesMutex in getRoutesForSource and incrementRouteCounter, the
\* queue mutex of the RemoteForwarder in send.
LocksHeldTogether(t) ==
    (IF portsMutex = t THEN {"portsMutex"} ELSE {})
    \cup (CASE bridgeThread[t].pc \in {"fm_routes", "fm_count"} -> {"routesMutex"}
            [] bridgeThread[t].pc = "fr_send" -> {"RemoteForwarder::queueMutex"}
            [] OTHER -> {})

\* C25: no thread holds two of the locks of the system at the same time.
C25_NoTwoLocks ==
    \A t \in BridgeThreads : Cardinality(LocksHeldTogether(t)) <= 1

\* C26: whenever a thread invokes the routing callback of the port, on the
\* driver-callback path and on the inject path, that thread holds neither the
\* port's queueMutex nor its callbackMutex.
C26_CallbackOutsideLocks ==
    [][ \A t \in FifoThreads :
          (fifoThread[t].pc = "invoke" /\ fifoCalls' # fifoCalls
             /\ fifoThread'[t].pc = "idle")
          => /\ fifoPort.queueMutex # t
             /\ fifoPort.callbackMutex # t ]_vars

\* The callback has been invoked on the driver path, and an inject is about
\* to invoke it while another thread is inside a locked block of the port.
C26_Witness ==
    /\ fifoDelivered # <<>>
    /\ Len(fifoCalls) = 1
    /\ \E t \in FifoThreads \ {"driver"} :
         /\ fifoThread[t].pc = "invoke"
         /\ fifoThread[t].callback
         /\ fifoPort.queueMutex \in FifoThreads \ {t}

\* ------------------------------------------------------------------ claims: route table

\* A step in which PUT /routes/:routeId was answered with 200: setRouteEnabled
\* returned true.
SetRouteEnabledReturnedTrue ==
    /\ routeOps' = routeOps + 1
    /\ response'.status = 200
    /\ DOMAIN routes' = DOMAIN routes

\* C27: setRouteEnabled on an existing route leaves the set of routes, and
\* of every route the id, the counter messagesForwarded, the source and the
\* destination as they were, and changes the enabled flag of at most one
\* route; so a route that is disabled and enabled again keeps its counter.
C27_OnlyEnabledChanges ==
    [][ SetRouteEnabledReturnedTrue =>
          /\ \A id \in DOMAIN routes :
               routes'[id] = [routes[id] EXCEPT !.enabled = routes'[id].enabled]
          /\ Cardinality({id \in DOMAIN routes :
                            routes'[id].enabled # routes[id].enabled}) <= 1 ]_vars

\* Both routes have forwarded a message; r1 was disabled after that (the file
\* holds it disabled) and, with the file no longer writable, enabled again.
C27_Witness ==
    /\ DOMAIN routes = {R1, R2}
    /\ routes[R1].messagesForwarded = 1 /\ routes[R1].enabled
    /\ routes[R2].messagesForwarded = 1 /\ routes[R2].enabled
    /\ ~routesFile.writable
    /\ DOMAIN loadFromDisk(routesFile, EmptyMap) = {R1, R2}
    /\ ~loadFromDisk(routesFile, EmptyMap)[R1].enabled
    /\ response = Respond(200, "success:true")

\* What the call returns and leaves in the table when the file is writable.
WhenWritable(file) == [file EXCEPT !.writable = TRUE]

\* C28: while the routes file cannot be written, addRoute, removeRoute and
\* setRouteEnabled leave the file alone, change the table and answer as they
\* do when the file can be written; and forwardMessage collects the enabled
\* routes of the table in memory, whatever the file holds.
C28_NoRollback ==
    [][ /\ ~routesFile.writable =>
             /\ \A routeId \in {R1, R2}, enabled \in BOOLEAN :
                  \A t \in HttpThreads : SetRouteEnabled(t, routeId, enabled) =>
                    LET done == setRouteEnabled(routes, WhenWritable(routesFile),
                                                routeId, enabled)
                    IN /\ routes' = done.routes
                       /\ response'.status = IF done.result THEN 200 ELSE 404
                       /\ routesFile' = routesFile
             /\ \A routeId \in {R1, R2} :
                  \A t \in HttpThreads : RemoveRoute(t, routeId) =>
                    LET done == removeRoute(routes, WhenWritable(routesFile), routeId)
                    IN /\ routes' = done.routes
                       /\ response'.status = IF done.result THEN 200 ELSE 404
                       /\ routesFile' = routesFile
             /\ \A routeId \in {R1, R2}, req \in RouteRequests :
                  \A t \in HttpThreads : AddRoute(t, [req EXCEPT !.id = routeId]) =>
                    /\ DOMAIN routes' = DOMAIN routes \cup {routeId}
                    /\ routes'[routeId] =
                         [ id |-> routeId, enabled |-> req.enabled, source |-> req.source,
                           destination |-> req.destination, messagesForwarded |-> 0 ]
                    /\ \A id \in DOMAIN routes \ {routeId} : routes'[id] = routes[id]
                    /\ response'.status = 201
                    /\ routesFile' = routesFile
        /\ \A t \in DriverThreads :
             (bridgeThread[t].pc = "fm_routes" /\ bridgeThread'[t].pc # "fm_routes") =>
               LET enabledIds == {id \in DOMAIN routes : routes[id].enabled}
                   collected == bridgeThread'[t].matchingRoutes
               IN IF enabledIds = {} THEN bridgeThread'[t].pc = "idle"
                  ELSE /\ bridgeThread'[t].pc = "fm_dispatch"
                       /\ {collected[n].id : n \in 1..Len(collected)} = enabledIds ]_vars

\* The file cannot be written and holds r1 only, enabled; since then r1 was
\* disabled and r2 added in memory, and a delivery has collected r2 alone.
C28_Witness ==
    /\ ~routesFile.writable
    /\ DOMAIN loadFromDisk(routesFile, EmptyMap) = {R1}
    /\ loadFromDisk(routesFile, EmptyMap)[R1].enabled
    /\ DOMAIN routes = {R1, R2}
    /\ ~routes[R1].enabled /\ routes[R2].enabled
    /\ \E t \in DriverThreads :
         /\ bridgeThread[t].pc = "fm_dispatch"
         /\ Len(bridgeThread[t].matchingRoutes) = 1
         /\ bridgeThread[t].matchingRoutes[1].id = R2

\* What removeRoute and setRouteEnabled return and leave behind in a step:
\* true (200) exactly for an id of the table; on false the table and the file
\* as they were; after removeRoute returned true no route of that id in the
\* table, and none in the file either, in every case when `always`, and
\* otherwise in the case that the file could be written.
ReturnsWhetherPresent(always) ==
    \A routeId \in {R1, R2}, t \in HttpThreads :
        LET present == routeId \in DOMAIN routes IN
        /\ RemoveRoute(t, routeId) =>
             /\ response'.status = IF present THEN 200 ELSE 404
             /\ ~present => UNCHANGED <<routes, routesFile>>
             /\ present => routeId \notin DOMAIN routes'
             /\ (present /\ (always \/ routesFile.writable))
                  => routeId \notin DOMAIN loadFromDisk(routesFile', EmptyMap)
        /\ \A enabled \in BOOLEAN :
             SetRouteEnabled(t, routeId, enabled) =>
               /\ response'.status = IF present THEN 200 ELSE 404
               /\ ~present => UNCHANGED <<routes, routesFile>>

WellFormed(entry) ==
    /\ entry.id # <<>>
    /\ entry.source.portId # <<>>
    /\ entry.destination.portId # <<>>

\* C30: loadFromDisk loads an entry of the file exactly when it is well
\* formed and skips the others; a loaded route has the enabled flag and the
\* endpoints of its entry and messagesForwarded = 0.  (The entries of the file
\* are the routes of serRoutes, which saveToDiskUnlocked wrote.)
C30_LoadsWellFormedEntries ==
    serStep = "loaded" =>
        /\ DOMAIN serLoaded = {id \in DOMAIN serRoutes : WellFormed(serRoutes[id])}
        /\ \A id \in DOMAIN serLoaded :
             serLoaded[id] = [serRoutes[id] EXCEPT !.messagesForwarded = 0]

\* ------------------------------------------------------------------ claims: auto-open

\* C31: ensureLocalPortOpen never replaces or closes a port that is registered
\* under its portId, also when it runs concurrently with an explicit open or
\* another auto-open of that portId: the step in which it finishes leaves
\* every registered port as it is.
C31_AutoOpenKeepsRegisteredPort ==
    [][ \A t \in AutoThreads :
          (autoOpen[t].pc = "open" /\ autoOpen'[t].pc = "idle")
          => \A portId \in DOMAIN ports :
               portId \in DOMAIN ports' /\ ports'[portId] = ports[portId] ]_vars

\* ------------------------------------------------------------------ claims: table invariant

\* C32: every route of the table is stored under its own id (so no two
\* routes share one) and has a non-empty id, source.portId and
\* destination.portId, after any sequence of startup loads, POST /routes
\* requests with or without an id, toggles and deletions.
C32_RoutesWellFormed ==
    \A id \in DOMAIN routes :
        /\ routes[id].id = id
        /\ id # <<>>
        /\ routes[id].source.portId # <<>>
        /\ routes[id].destination.portId # <<>>

\* A restarted process has loaded two routes, one under a generated id and
\* one under the id the request supplied.
C32_Witness ==
    /\ restarts = 1
    /\ R1 \in DOMAIN routes
    /\ \E id \in DOMAIN routes : StartsWith(id, <<"r", "o", "u", "t", "e", "-">>)

\* ------------------------------------------------------------------ claims: dispatch

\* The positions of a thread inside the loop of forwardMessage.
InForwardLoop == {"fm_dispatch", "fr_send", "fl_lock", "fm_count", "unwind", "deadlocked"}

\* C33: forwardMessage dispatches the message once through each route it
\* collected (the enabled routes of the source) and through no other: each
\* turn of the loop dispatches the next collected route, to the local
\* forwarder for a local destination and to the RemoteForwarder otherwise,
\* and the call returns only after the turn of the last collected route.
C33_DispatchOncePerRoute ==
    [][ \A t \in BridgeThreads :
          LET thread == bridgeThread[t]
              route == thread.matchingRoutes[thread.i]
          IN
          /\ (thread.pc = "fm_dispatch" /\ bridgeThread'[t].pc # "fm_dispatch") =>
                /\ dispatched' = [dispatched EXCEPT ![route.id] = @ + 1]
                /\ bridgeThread'[t].pc =
                     IF isLocalDestination(route.destination.serverUrl)
                     THEN "fl_lock" ELSE "fr_send"
          /\ (thread.pc \in InForwardLoop /\ bridgeThread'[t].pc \notin InForwardLoop) =>
                /\ thread.pc = "fm_count"
                /\ thread.i = Len(thread.matchingRoutes) ]_vars

\* The host[:port] part of http://host[:port][/path], its host, and its port
\* (80 when absent).
UrlAuthority(url) ==
    LET rest == SubstrFrom(url, Len(HttpPrefix))
        slashPos == Find(rest, "/")
    IN IF slashPos = -1 THEN rest ELSE SubSeq(rest, 1, slashPos)

UrlHost(url) ==
    LET colonPos == Find(UrlAuthority(url), ":")
    IN IF colonPos = -1 THEN UrlAuthority(url) ELSE SubSeq(UrlAuthority(url), 1, colonPos)

UrlPort(url) ==
    LET colonPos == Find(UrlAuthority(url), ":")
    IN IF colonPos = -1 THEN 80
       ELSE LeadingValue(SubstrFrom(UrlAuthority(url), colonPos + 1), 0)

\* C34: the item forwardToRemoteServer is about to enqueue for a destination
\* http://host[:port][/path] goes to the forwarder of host and port (80 when
\* the URL has none, the path ignored), with the path /virtual/{id}/send for
\* a virtual destination and /port/{portId}/send otherwise, and a body that
\* lists the bytes of the message in decimal.
C34_RemoteItem ==
    \A t \in BridgeThreads :
        LET thread == bridgeThread[t]
            dest == thread.matchingRoutes[thread.i].destination
        IN (thread.pc = "fr_send" /\ StartsWith(dest.serverUrl, HttpPrefix)) =>
             /\ thread.key = UrlHost(dest.serverUrl) \o <<":">>
                               \o to_string(UrlPort(dest.serverUrl))
             /\ thread.path =
                  IF StartsWith(dest.portId, VirtualPrefix)
                  THEN <<"/", "v", "i", "r", "t", "u", "a", "l", "/">>
                       \o SubstrFrom(dest.portId, Len(VirtualPrefix))
                       \o <<"/", "s", "e", "n", "d">>
                  ELSE <<"/", "p", "o", "r", "t", "/">> \o dest.portId
                       \o <<"/", "s", "e", "n", "d">>
             /\ thread.body =
                  <<"{", "\"", "m", "e", "s", "s", "a", "g", "e", "\"", ":", "[">>
                  \o to_string(thread.data[1]) \o <<",">> \o to_string(thread.data[2])
                  \o <<",">> \o to_string(thread.data[3]) \o <<"]", "}">>

\* ------------------------------------------------------------------ claims: local dispatch

\* The destination of the route which thread t is dispatching.
LocalDestination(t) ==
    bridgeThread[t].matchingRoutes[bridgeThread[t].i].destination.portId

\* C35: a step of forwardToLocalDestination that has taken portsMutex looks a
\* destination with the prefix virtual: up in the virtual map, under the id
\* without the prefix, and any other destination in the physical map; it
\* transmits only on a port found there, and with the destination missing
\* from that map it makes no transmit call and changes no port and no route,
\* whatever the other map holds.
C35_ResolvesByPrefix ==
    [][ \A t \in BridgeThreads :
          (bridgeThread[t].pc = "fl_lock" /\ bridgeThread'[t].pc = "fm_count") =>
            LET destPortId == LocalDestination(t)
                found == IF StartsWith(destPortId, VirtualPrefix)
                         THEN SubstrFrom(destPortId, Len(VirtualPrefix))
                                \in DOMAIN virtualPorts
                         ELSE destPortId \in DOMAIN ports
            IN /\ UNCHANGED <<ports, virtualPorts, routes>>
               /\ ~found => transmitted' = transmitted
               /\ found => transmitted' =
                             Append(transmitted,
                                    [port |-> destPortId, primitive |-> "MidiMessage",
                                     bytes |-> bridgeThread[t].data]) ]_vars

\* The driver's message was dispatched to virtual:vo while a physical port is
\* registered under virtual:vo and no virtual port vo exists, and to output-0
\* while only a virtual port has that id: nothing was transmitted.
C35_Witness ==
    /\ (VirtualPrefix \o Vo) \in DOMAIN ports
    /\ Vo \notin DOMAIN virtualPorts
    /\ Output0 \in DOMAIN virtualPorts
    /\ Output0 \notin DOMAIN ports
    /\ dispatched[R1] = 1 /\ dispatched[R2] = 1
    /\ bridgeThread["driver"].pc = "idle"
    /\ routes[R1].messagesForwarded = 1 /\ routes[R2].messagesForwarded = 1
    /\ transmitted = <<>>

\* ------------------------------------------------------------------ claims: emitted messages

\* What a step appended to a sequence (<<>> when the sequence did not grow).
Gained(before, after) == SubSeq(after, Len(before) + 1, Len(after))

\* One delivery emitted to the FIFO and to the routing callback alike: at
\* most one message was pushed, it was passed to the callback once with the
\* same bytes when a callback is set, and nothing was passed otherwise.
EmittedOnce(queue, queueAfter, callback, calls, callsAfter) ==
    /\ Len(Gained(queue, queueAfter)) <= 1
    /\ SubSeq(queueAfter, 1, Len(queue)) = queue
    /\ SubSeq(callsAfter, 1, Len(calls)) = calls
    /\ Gained(calls, callsAfter) =
         IF callback
         THEN [n \in 1..Len(Gained(queue, queueAfter)) |->
                 <<"in", Gained(queue, queueAfter)[n]>>]
         ELSE <<>>

\* C36: every delivery of a fragment to a port pushes the message it
\* completes onto the FIFO once and passes it to the routing callback once,
\* with the same bytes, when a callback is set; a fragment that continues a
\* SysEx which it does not finish is never pushed onto the FIFO as it came.
C36_EmittedOnceNeverRaw ==
    [][ \A raw \in Fragments :
          fragLog' = Append(fragLog, raw) =>
            /\ EmittedOnce(physIn.messageQueue, physIn'.messageQueue,
                           physIn.messageCallback, physCalls, physCalls')
            /\ EmittedOnce(virtIn.messageQueue, virtIn'.messageQueue,
                           virtIn.messageCallback, virtCalls, virtCalls')
            /\ (BufferingAfter(fragLog, Len(fragLog)) /\ raw[1] # F0 /\ Last(raw) # F7)
                 => /\ physIn'.messageQueue = physIn.messageQueue
                    /\ virtIn'.messageQueue = virtIn.messageQueue ]_vars

\* ------------------------------------------------------------------ claims: restarted SysEx

\* A fragment that starts with 0xF0 reached a port which was buffering: a
\* framed fragment was emitted as it came and left the port not buffering
\* with an empty buffer, any other became the whole new buffer.
RestartedBy(port, portAfter, raw) ==
    (port.sysexBuffering /\ port.sysexBuffer # <<>> /\ raw[1] = F0) =>
        IF Last(raw) = F7
        THEN /\ portAfter.messageQueue = Append(port.messageQueue, raw)
             /\ ~portAfter.sysexBuffering
             /\ portAfter.sysexBuffer = <<>>
        ELSE /\ portAfter.messageQueue = port.messageQueue
             /\ portAfter.sysexBuffering
             /\ portAfter.sysexBuffer = raw

\* What a delivery pushed is made of the fragments that arrived from the last
\* fragment starting with 0xF0 on: no byte buffered before it is in it.
NothingDiscardedIn(queue, queueAfter, frags) ==
    \A r \in 1..Len(frags) :
        (frags[r][1] = F0 /\ Gained(queue, queueAfter) # <<>>) =>
            \E j \in r..Len(frags) :
                Gained(queue, queueAfter)[1] = ConcatRange(frags, j, Len(frags))

\* C37: a fragment that starts with 0xF0 and arrives while a SysEx is being
\* buffered discards the partial buffer, in both port classes: a framed
\* fragment is emitted as it came and leaves {buffering false, buffer
\* empty}, an unframed one becomes the whole new buffer, and no message
\* emitted afterwards holds a byte that was buffered before that fragment.
C37_RestartDiscardsPartial ==
    [][ \A raw \in Fragments :
          fragLog' = Append(fragLog, raw) =>
            /\ RestartedBy(physIn, physIn', raw)
            /\ RestartedBy(virtIn, virtIn', raw)
            /\ NothingDiscardedIn(physIn.messageQueue, physIn'.messageQueue, fragLog')
            /\ NothingDiscardedIn(virtIn.messageQueue, virtIn'.messageQueue, fragLog') ]_vars

\* F0 7E 01 was buffered, a lone F0 restarted the SysEx and 04 F7 finished it:
\* the port emitted F0 04 F7.
C37_Witness ==
    /\ fragLog = << <<240, 126, 1>>, <<240>>, <<4, 247>> >>
    /\ physIn.messageQueue = << <<240, 4, 247>> >>
    /\ ~physIn.sysexBuffering /\ physIn.sysexBuffer = <<>>

\* ------------------------------------------------------------------ claims: reassembler state

\* C38: in every state of a physical port the buffer is empty while
\* sysexBuffering is false; while it is true the buffer is non-empty, starts
\* with 0xF0 and does not end with 0xF7; and every emitted message that starts
\* with 0xF0 ends with 0xF7.
C38_ReassemblerState ==
    /\ ~physIn.sysexBuffering => physIn.sysexBuffer = <<>>
    /\ physIn.sysexBuffering =>
         /\ physIn.sysexBuffer # <<>>
         /\ physIn.sysexBuffer[1] = F0
         /\ Last(physIn.sysexBuffer) # F7
    /\ \A n \in 1..Len(physIn.messageQueue) :
         physIn.messageQueue[n][1] = F0 => Last(physIn.messageQueue[n]) = F7

\* A SysEx of three fragments was emitted and a lone F0 started the next one.
C38_Witness ==
    /\ fragLog = << <<240, 126, 1>>, <<2, 3>>, <<4, 247>>, <<240>> >>
    /\ physIn.messageQueue = << <<240, 126, 1, 2, 3, 4, 247>> >>
    /\ physIn.sysexBuffering /\ physIn.sysexBuffer = <<240>>

\* ------------------------------------------------------------------ claims: counting under threads

\* The threads that have dispatched through the route and not yet counted.
NotYetCounted(routeId) ==
    { t \in BridgeThreads :
        /\ bridgeThread[t].pc \in {"fr_send", "fl_lock", "fm_count"}
        /\ bridgeThread[t].matchingRoutes[bridgeThread[t].i].id = routeId }

\* C39: while the route r2 has stayed in the table since it was added, its
\* messagesForwarded equals the number of dispatches through it whose loop
\* body has finished, whichever threads ran them; and the counting step of a
\* forwardMessage finds the route and adds one, or finds it removed and then
\* leaves the table as it is and goes on to the next route or returns.
C39_CountsWithoutLostUpdates ==
    /\ [](  (R2 \in DOMAIN routes /\ routeOps = 1) =>
              routes[R2].messagesForwarded + Cardinality(NotYetCounted(R2))
                = dispatched[R2] )
    /\ [][ \A t \in BridgeThreads :
             (bridgeThread[t].pc = "fm_count" /\ bridgeThread'[t] # bridgeThread[t]) =>
               LET id == bridgeThread[t].matchingRoutes[bridgeThread[t].i].id
               IN /\ routes' = IF id \in DOMAIN routes
                               THEN [routes EXCEPT ![id].messagesForwarded = @ + 1]
                               ELSE routes
                  /\ bridgeThread'[t].pc \notin {"unwind", "deadlocked", "terminated"} ]_vars

\* The driver's delivery and the inject request both selected r2 and were
\* between dispatch and count together.
BothNotYetCounted == NotYetCounted(R2) = BridgeThreads /\ routes[R2].messagesForwarded = 0

\* Two forwardMessage calls through r2 have returned and r2, in the table
\* since it was added, counts 2.
C39_Witness ==
    /\ R2 \in DOMAIN routes /\ routeOps = 1
    /\ dispatched[R2] = 2
    /\ routes[R2].messagesForwarded = 2
    /\ \A t \in BridgeThreads : bridgeThread[t].pc = "idle"
    /\ Len(forwarders[ForwarderKey(ParseServerUrl(RemoteUrl).host,
                                   ParseServerUrl(RemoteUrl).port)].enqueued) = 2

\* ------------------------------------------------------------------ claims: shutdown of a forwarder

\* C40: a worker that has returned left nothing behind: its queue is empty
\* and the items it POSTed are the items enqueued on its forwarder, each once
\* and in the order they were enqueued, those that were still queued when the
\* destructor set running = false included.
C40_WorkerDrainsBeforeExit ==
    \A key \in DOMAIN fwd :
        fwd[key].pc = "exited" =>
            /\ ~fwd[key].running
            /\ fwd[key].pendingQueue = <<>>
            /\ Attempted(fwd[key]) = fwd[key].enqueued

\* The destructor set running = false while the worker was in the POST of
\* item 1 and item 2 was queued; the worker POSTed item 2 and returned.
C40_Witness ==
    \E key \in FwdKeys :
        /\ DOMAIN fwd = {key}
        /\ fwdDtor.seen = {[pc |-> "post", queued |-> TRUE]}
        /\ fwd[key].pc = "exited"
        /\ Attempted(fwd[key]) = <<1, 2>>

====
